---- MODULE Spec2Model ----
(***************************************************************************)
(* A model of helper_scripts/adf_resources.py: the two whole-tree rewrite  *)
(* passes (attachment-id substitution, image-dimension clamping) and the   *)
(* ADF -> AsciiDoc renderer (process_node and the renderers it routes to). *)
(*                                                                         *)
(* Python dicts are mutable objects, so the rewrite pass is modelled over  *)
(* a heap: a node dict and its "attrs" dict are separate objects reached   *)
(* by address, and dict.copy() allocates one new dict that holds the same  *)
(* references.  Strings are sequences of one-character strings, so that    *)
(* replace, strip and startswith are computed character by character.      *)
(***************************************************************************)
EXTENDS Integers, Sequences, FiniteSets, TLC

VARIABLES
    pc,         \* position of the driver of the part being run
    nodes,      \* heap of node dicts: address -> [type, attrs, content]
    attrsHeap,  \* heap of attrs dicts: address -> [collection, id]
    root,       \* the caller's reference to its tree (adf_json); 0 is None
    mapping,    \* filename_to_fileid
    ret,        \* the reference update_adf_media_ids returned
    orig,       \* ghost: the value of the caller's tree before the first call
    first,      \* ghost: the value of the first call's result when it returned
    clampIn,    \* the tree given to update_adf_image_dimensions
    clampMax,   \* its max_width argument
    clampOut,   \* the tree it returned
    clampOut2,  \* the tree it returned when applied to clampOut
    document,   \* content["content"]: the top-level nodes convert renders
    context,    \* the context dict shared by all process_node calls
    dictHeap,   \* heap of the dicts a context refers to (anchors, mentions)
    result,     \* convert's list of fragments
    output,     \* the text convert returns
    position,   \* index of the next top-level node
    skipObject, \* ghost: position of the object held in next_node_to_skip, or 0
    lastCall,   \* ghost: the last top-level process_node call and its result
    argNode,    \* the node given to the renderer function under test
    argContext, \* the context dict given with it, as it was before the call
    argHeap,    \* the dicts that context refers to, before the call
    returned,   \* the function called, what it returned and the context after it
    pageId,     \* main: page_id, the --page-id option, then the id of the page in use
    max_image_width, \* main: the --max-image-width option
    images,     \* the image paths collected from the Asciidoctor sources
    current_files, \* the mapping of attachment titles given to the upload
    filename_to_fileid, \* the mapping the upload builds and returns
    adf_json,   \* main: the document loaded from the ADF file
    patched_adf, \* main: the document main sends to the page
    calls,      \* the calls and requests made so far, in order
    image,      \* upload: index in images of the image the loop is at
    attachments_by_name, \* upload: the attachment objects by title
    old_attachment_id,   \* upload: the attachment to remove after the upload
    nextStart,  \* _paginate: start, the offset of the next request
    all_results, \* _paginate: the results collected so far
    limit,      \* _paginate: the number of items asked for per request
    server,     \* what the remote site answers
    config,     \* download: config.max_depth
    visited_pages, \* download: the set of page ids already entered
    page_mapping,  \* download: the page mapping dict
    stack,      \* the frames of the recursion, innermost first
    disk,       \* the files on disk
    processed_files, \* extract: the set of files already read
    imagesdir   \* extract: the images directory in effect

idVars == <<nodes, attrsHeap, root, mapping, ret, orig, first>>
clampVars == <<clampIn, clampMax, clampOut, clampOut2>>
renderVars ==
    <<document, context, dictHeap, result, output, position, skipObject, lastCall>>
callVars == <<argNode, argContext, argHeap, returned>>
mainVars ==
    <<pageId, max_image_width, images, current_files, filename_to_fileid,
      adf_json, patched_adf, calls>>
uploadVars == <<image, attachments_by_name, old_attachment_id>>
paginateVars == <<nextStart, all_results, limit, server>>
downloadVars == <<config, visited_pages, page_mapping, stack, disk>>
extractVars == <<processed_files, imagesdir>>
scriptVars == <<mainVars, uploadVars, paginateVars, downloadVars, extractVars>>
vars == <<pc, idVars, clampVars, renderVars, callVars, scriptVars>>

(***************************************************************************)
(* Bounds of the model.                                                    *)
(***************************************************************************)
MaxNodes == 3
MaxDim == 4
MaxBlocks == 3

(***************************************************************************)
(* Generic helpers.                                                        *)
(***************************************************************************)
Min(S) == CHOOSE x \in S : \A y \in S : x <= y

RECURSIVE SortedSeq(_)
SortedSeq(S) ==
    IF S = {} THEN <<>> ELSE <<Min(S)>> \o SortedSeq(S \ {Min(S)})

RECURSIVE Flatten(_)
Flatten(ss) ==
    IF ss = <<>> THEN <<>> ELSE Head(ss) \o Flatten(Tail(ss))

(***************************************************************************)
(* Each part of the program is run by its own specification; the state of  *)
(* the parts that do not run is held at these values.                      *)
(***************************************************************************)
ClampIdle ==
    /\ clampIn = <<>>
    /\ clampMax = <<>>
    /\ clampOut = <<>>
    /\ clampOut2 = <<>>

RenderIdle ==
    /\ document = <<>>
    /\ context = <<>>
    /\ dictHeap = <<>>
    /\ result = <<>>
    /\ output = <<>>
    /\ position = 0
    /\ skipObject = 0
    /\ lastCall = <<>>

CallIdle ==
    /\ argNode = <<>>
    /\ argContext = <<>>
    /\ argHeap = <<>>
    /\ returned = <<>>

\* The helper scripts are not running.
UploadIdle == image = 0 /\ attachments_by_name = <<>> /\ old_attachment_id = <<>>

PaginateIdle == nextStart = 0 /\ all_results = <<>> /\ limit = 0 /\ server = <<>>

DownloadIdle == config = <<>> /\ visited_pages = {} /\ page_mapping = <<>> /\ stack = <<>> /\ disk = <<>>

ExtractIdle == processed_files = {} /\ imagesdir = <<>>

ScriptIdle ==
    /\ UploadIdle
    /\ PaginateIdle
    /\ DownloadIdle
    /\ ExtractIdle
    /\ pageId = <<>>
    /\ max_image_width = <<>>
    /\ images = <<>>
    /\ current_files = <<>>
    /\ filename_to_fileid = <<>>
    /\ adf_json = <<>>
    /\ patched_adf = <<>>
    /\ calls = <<>>

(***************************************************************************)
(* PART A.  update_adf_media_ids (adf_resources.py 580-620).               *)
(***************************************************************************)
NoneRef == 0
NoType == "<none>"
NoValue == "<none>"

\* File names that occur as media ids, and the values a mapping may give them.
\* "a" and "b" are both names and values, so a mapping can chain (a -> b -> X).
FileNames == {"a", "b"}
FileIds == {"a", "b", "X"}

Mappings == UNION {[K -> FileIds] : K \in SUBSET FileNames}

\* The dicts a JSON document can hold at one node: its type, whether it has an
\* attrs dict, and that dict's collection and id.  The empty dict {} has no type.
NodeKinds ==
    { [type |-> "paragraph",   hasAttrs |-> FALSE, collection |-> NoValue,       id |-> NoValue],
      [type |-> "media",       hasAttrs |-> TRUE,  collection |-> "attachments", id |-> "a"],
      [type |-> "media",       hasAttrs |-> TRUE,  collection |-> "attachments", id |-> "b"],
      [type |-> "media",       hasAttrs |-> TRUE,  collection |-> "external",    id |-> "a"],
      [type |-> "mediaInline", hasAttrs |-> TRUE,  collection |-> "attachments", id |-> "a"],
      [type |-> "media",       hasAttrs |-> FALSE, collection |-> NoValue,       id |-> NoValue],
      [type |-> "panel",       hasAttrs |-> TRUE,  collection |-> "attachments", id |-> "a"] }

EmptyDict == [type |-> NoType, hasAttrs |-> FALSE, collection |-> NoValue, id |-> NoValue]

\* Tree shapes over addresses 1..n with root 1: node i > 1 hangs under p[i] < i.
Shapes(n) == {p \in [2..n -> 1..n] : \A i \in 2..n : p[i] < i}

Children(p, i) == SortedSeq({j \in DOMAIN p : p[j] = i})

\* json.load builds a tree of fresh objects: node i owns attrs dict i.
MkNodes(n, p, k) ==
    [i \in 1..n |->
        [type |-> k[i].type,
         attrs |-> IF k[i].hasAttrs THEN i ELSE 0,
         content |-> Children(p, i)]]

MkAttrs(n, k) ==
    [i \in 1..n |-> [collection |-> k[i].collection, id |-> k[i].id]]

\* The value of the tree under a reference: what == and json.dump see.
NoneTree ==
    [type |-> "None", hasAttrs |-> FALSE, collection |-> NoValue, id |-> NoValue,
     content |-> <<>>]

RECURSIVE DerefNode(_, _, _)
DerefNode(ns, as, r) ==
    LET nd == ns[r] IN
    [type |-> nd.type,
     hasAttrs |-> nd.attrs # 0,
     collection |-> IF nd.attrs # 0 THEN as[nd.attrs].collection ELSE NoValue,
     id |-> IF nd.attrs # 0 THEN as[nd.attrs].id ELSE NoValue,
     content |-> [i \in 1..Len(nd.content) |-> DerefNode(ns, as, nd.content[i])]]

Deref(ns, as, r) == IF r = NoneRef THEN NoneTree ELSE DerefNode(ns, as, r)

\* `not adf_json`: None or the empty dict.
Falsy(ns, r) == r = NoneRef \/ ns[r].type = NoType

\* Mutant of IsAttachmentMedia: the collection test is left out.
IsAttachmentMediaAnyCollection(nd, as) ==
    /\ nd.type \in {"media", "mediaInline"}
    /\ nd.attrs # 0

\* adf_resources.py 599-602: the node is a media reference to an uploaded attachment.
IsAttachmentMedia(nd, as) ==
    /\ nd.type \in {"media", "mediaInline"}
    /\ nd.attrs # 0
    /\ as[nd.attrs].collection = "attachments"

\* Mutant of ReplaceId: the membership test is left out and the id is looked up
\* with a default, so an id that is no key is overwritten with None.
ReplaceIdNoKeyTest(nd, as, m) ==
    IF IsAttachmentMedia(nd, as)
    THEN [as EXCEPT ![nd.attrs].id =
            IF as[nd.attrs].id \in DOMAIN m THEN m[as[nd.attrs].id] ELSE NoValue]
    ELSE as

\* adf_resources.py 603-605: node["attrs"]["id"] = filename_to_fileid[current_id],
\* an assignment into the attrs dict the node refers to.
ReplaceId(nd, as, m) ==
    IF IsAttachmentMedia(nd, as) /\ as[nd.attrs].id \in DOMAIN m
    THEN [as EXCEPT ![nd.attrs].id = m[as[nd.attrs].id]]
    ELSE as

\* adf_resources.py 594-614: process_node_recursively, threading the attrs heap
\* through the children in list order.  (The walk also enters the attrs dict
\* itself, which has no "attrs" key of its own and so never matches.)
RECURSIVE ProcessNodeRecursively(_, _, _, _)
RECURSIVE ProcessChildren(_, _, _, _, _)
ProcessChildren(ns, as, cs, i, m) ==
    IF i > Len(cs) THEN as
    ELSE ProcessChildren(ns, ProcessNodeRecursively(ns, as, cs[i], m), cs, i + 1, m)

ProcessNodeRecursively(ns, as, r, m) ==
    ProcessChildren(ns, ReplaceId(ns[r], as, m), ns[r].content, 1, m)

\* adf_resources.py 617: updated_adf = adf_json.copy() allocates one new dict
\* holding the same values: the same attrs dict and the same content list.
CopyRoot(ns, r) == Append(ns, ns[r])

\* adf_resources.py 580-620.  The result is the new heap and the returned reference.
UpdateAdfMediaIds(ns, as, r, m) ==
    IF Falsy(ns, r) \/ DOMAIN m = {}
    THEN [nodes |-> ns, attrs |-> as, ret |-> r]
    ELSE LET ns2 == CopyRoot(ns, r)
             r2 == Len(ns2)
         IN [nodes |-> ns2,
             attrs |-> ProcessNodeRecursively(ns2, as, r2, m),
             ret |-> r2]

IdInit ==
    /\ pc = "start"
    /\ mapping \in Mappings
    /\ \/ /\ root = NoneRef
          /\ nodes = <<>>
          /\ attrsHeap = <<>>
       \/ /\ root = 1
          /\ nodes = MkNodes(1, <<>>, <<EmptyDict>>)
          /\ attrsHeap = MkAttrs(1, <<EmptyDict>>)
       \/ /\ root = 1
          /\ \E n \in 1..MaxNodes :
               \E p \in Shapes(n), k \in [1..n -> NodeKinds] :
                  /\ nodes = MkNodes(n, p, k)
                  /\ attrsHeap = MkAttrs(n, k)
    /\ ret = NoneRef
    /\ orig = Deref(nodes, attrsHeap, root)
    /\ first = NoneTree
    /\ ClampIdle
    /\ RenderIdle
    /\ CallIdle
    /\ ScriptIdle

\* upload_to_confluence.py 65: patched_adf = update_adf_media_ids(adf_json, ...)
CallUpdate ==
    /\ pc = "start"
    /\ LET u == UpdateAdfMediaIds(nodes, attrsHeap, root, mapping) IN
        /\ nodes' = u.nodes
        /\ attrsHeap' = u.attrs
        /\ ret' = u.ret
        /\ first' = Deref(u.nodes, u.attrs, u.ret)
    /\ pc' = "once"
    /\ UNCHANGED <<root, mapping, orig>>
    /\ UNCHANGED <<clampVars, renderVars, callVars, scriptVars>>

\* The pass applied a second time, to its own result, with the same mapping.
CallAgain ==
    /\ pc = "once"
    /\ LET u == UpdateAdfMediaIds(nodes, attrsHeap, ret, mapping) IN
        /\ nodes' = u.nodes
        /\ attrsHeap' = u.attrs
        /\ ret' = u.ret
    /\ pc' = "twice"
    /\ UNCHANGED <<root, mapping, orig, first>>
    /\ UNCHANGED <<clampVars, renderVars, callVars, scriptVars>>

IdNext == CallUpdate \/ CallAgain

SpecIds == IdInit /\ [][IdNext]_vars

(***************************************************************************)
(* Claims about update_adf_media_ids, checked under SpecIds.               *)
(***************************************************************************)

\* C1 (as claimed): update_adf_media_ids never mutates the caller's tree: after
\* the call the value of the caller's tree, nested media attrs included, is what
\* it was before the call.  The code copies only the top-level dict, so the
\* attrs dicts it assigns into are the caller's own.
C1_CallerTreeUnchanged ==
    pc # "start" => Deref(nodes, attrsHeap, root) = orig

\* The substitution stated on tree values, independently of the heap walk.
RECURSIVE SubstValue(_, _)
SubstValue(t, m) ==
    [type |-> t.type,
     hasAttrs |-> t.hasAttrs,
     collection |-> t.collection,
     id |-> IF /\ t.type \in {"media", "mediaInline"}
               /\ t.hasAttrs
               /\ t.collection = "attachments"
               /\ t.id \in DOMAIN m
            THEN m[t.id] ELSE t.id,
     content |-> [i \in 1..Len(t.content) |-> SubstValue(t.content[i], m)]]

\* C2: in the returned tree a node's id is replaced by filenameToId[old id]
\* exactly when its type is media or mediaInline, its collection is
\* "attachments" and its old id is a key of the mapping; every other node,
\* attribute and the order of every content sequence is as in the input.
C2_ReplacedExactlyWhen ==
    pc = "once" => Deref(nodes, attrsHeap, ret) = SubstValue(orig, mapping)

\* Witness of C2: a media node of another collection keeps its id while the
\* attachment nested under it gets the mapped id.
C2_Witness ==
    /\ pc = "once"
    /\ Len(orig.content) > 0
    /\ Len(orig.content[1].content) > 0
    /\ orig.content[1].type = "media"
    /\ orig.content[1].collection = "external"
    /\ orig.content[1].id \in DOMAIN mapping
    /\ first.content[1].id = orig.content[1].id
    /\ first.content[1].content[1].id # orig.content[1].content[1].id

\* A mapping in which no value is a key that maps to something else.
NoChain(m) == \A k \in DOMAIN m : m[k] \in DOMAIN m => m[m[k]] = m[k]

\* C3 (as claimed): update_adf_media_ids is idempotent for every tree and every
\* mapping, a mapping in which some value is also a key included.
C3_IdempotentAnyMapping ==
    pc = "twice" => Deref(nodes, attrsHeap, ret) = first

\* C3 (amended): update_adf_media_ids is idempotent for every tree and every
\* mapping in which no value is a key mapped to a different value.
C3_IdempotentNoChain ==
    (pc = "twice" /\ NoChain(mapping)) => Deref(nodes, attrsHeap, ret) = first

\* Witness of C3: ids were replaced by the first call, under a mapping one of
\* whose values is also a key (mapped to itself).
C3_Witness ==
    /\ pc = "twice"
    /\ NoChain(mapping)
    /\ first # orig
    /\ \E k \in DOMAIN mapping : mapping[k] # k /\ mapping[k] \in DOMAIN mapping

(***************************************************************************)
(* PART B.  update_adf_image_dimensions (clampWidths).  The function is    *)
(* imported from adf_resources by upload_to_confluence.py and by           *)
(* tests/test_adf_dimensions.py, but its body is not among the source      *)
(* files; it is modelled from the specification (4.9) and from what the    *)
(* tests fix.                                                              *)
(***************************************************************************)

\* A width, height or max_width value: absent (None), a non-number such as
\* "auto", or a number.
Absent == [present |-> FALSE, num |-> FALSE, n |-> 0]
Auto == [present |-> TRUE, num |-> FALSE, n |-> 0]
Num(k) == [present |-> TRUE, num |-> TRUE, n |-> k]

Widths == {Absent, Auto} \cup {Num(k) : k \in 1..MaxDim}
Heights == {Absent, Auto} \cup {Num(k) : k \in 1..MaxDim}
MaxWidths == {Absent} \cup {Num(k) : k \in 0..MaxDim}

\* The node types whose width is clamped: the specification's media, media-inline
\* and media-group, and mediaSingle, whose attrs the tests expect to be clamped.
ClampTypes == {"media", "mediaInline", "mediaGroup", "mediaSingle"}

ClampKinds ==
    [type : {"media", "mediaInline", "mediaSingle", "paragraph"},
     width : Widths, height : Heights]

ClampLeaf(k) == [type |-> k.type, width |-> k.width, height |-> k.height, content |-> <<>>]

ClampDoc(cs) == [type |-> "doc", width |-> Absent, height |-> Absent, content |-> cs]

\* The input trees: None, {}, and a document holding a node with one nested node
\* (a mediaSingle around its media, a paragraph around a mediaInline).
ClampTrees ==
    { [type |-> "None", width |-> Absent, height |-> Absent, content |-> <<>>],
      [type |-> NoType, width |-> Absent, height |-> Absent, content |-> <<>>] }
    \cup { ClampDoc(<<[ClampLeaf(k1) EXCEPT !.content = <<ClampLeaf(k2)>>]>>) :
             k1 \in {k \in ClampKinds : k.height = Absent}, k2 \in ClampKinds }

\* Python's round() of the quotient a / b of two positive integers: to the nearest
\* integer, a tie going to the even one.
RoundDiv(a, b) ==
    LET q == a \div b
        r == a % b
    IN IF 2 * r < b THEN q
       ELSE IF 2 * r > b THEN q + 1
       ELSE IF q % 2 = 0 THEN q ELSE q + 1

\* Mutant of ClampAttrs: the new height is stored but the width is not.
ClampAttrsKeepWidth(nd, mw) ==
    IF nd.type \in ClampTypes /\ nd.width.num /\ nd.width.n > mw
    THEN [nd EXCEPT !.height = IF nd.height.num
                                THEN Num(RoundDiv(mw * nd.height.n, nd.width.n))
                                ELSE nd.height]
    ELSE nd

\* Mutant of ClampAttrs: the height is scaled by integer division (truncation).
ClampAttrsTruncate(nd, mw) ==
    IF nd.type \in ClampTypes /\ nd.width.num /\ nd.width.n > mw
    THEN [nd EXCEPT !.width = Num(mw),
                    !.height = IF nd.height.num
                                THEN Num((mw * nd.height.n) \div nd.width.n)
                                ELSE nd.height]
    ELSE nd

\* Specification 4.9: a node of a clamped type whose width is numeric and exceeds
\* maxWidth gets width = maxWidth and, if its height is numeric too,
\* height = round(maxWidth * height / width_original).
ClampAttrs(nd, mw) ==
    IF nd.type \in ClampTypes /\ nd.width.num /\ nd.width.n > mw
    THEN [nd EXCEPT !.width = Num(mw),
                    !.height = IF nd.height.num
                                THEN Num(RoundDiv(mw * nd.height.n, nd.width.n))
                                ELSE nd.height]
    ELSE nd

RECURSIVE ClampNode(_, _)
ClampNode(nd, mw) ==
    [ClampAttrs(nd, mw) EXCEPT
        !.content = [i \in 1..Len(nd.content) |-> ClampNode(nd.content[i], mw)]]

\* Specification 4.9: a no-op when maxWidth is zero or absent; the tests add that
\* None and {} are returned as they are.
UpdateAdfImageDimensions(t, mw) ==
    IF t.type \in {"None", NoType} \/ ~mw.present \/ mw.n = 0
    THEN t
    ELSE ClampNode(t, mw.n)

IdIdle ==
    /\ nodes = <<>>
    /\ attrsHeap = <<>>
    /\ root = NoneRef
    /\ mapping = <<>>
    /\ ret = NoneRef
    /\ orig = NoneTree
    /\ first = NoneTree

ClampInit ==
    /\ pc = "start"
    /\ clampIn \in ClampTrees
    /\ clampMax \in MaxWidths
    /\ clampOut = clampIn
    /\ clampOut2 = clampIn
    /\ IdIdle
    /\ RenderIdle
    /\ CallIdle
    /\ ScriptIdle

\* upload_to_confluence.py 68: update_adf_image_dimensions(patched_adf, max_image_width)
CallClamp ==
    /\ pc = "start"
    /\ clampOut' = UpdateAdfImageDimensions(clampIn, clampMax)
    /\ pc' = "once"
    /\ UNCHANGED <<clampIn, clampMax, clampOut2>>
    /\ UNCHANGED <<idVars, renderVars, callVars, scriptVars>>

\* The pass applied a second time, to its own result, with the same max_width.
CallClampAgain ==
    /\ pc = "once"
    /\ clampOut2' = UpdateAdfImageDimensions(clampOut, clampMax)
    /\ pc' = "twice"
    /\ UNCHANGED <<clampIn, clampMax, clampOut>>
    /\ UNCHANGED <<idVars, renderVars, callVars, scriptVars>>

ClampNext == CallClamp \/ CallClampAgain

SpecClamp == ClampInit /\ [][ClampNext]_vars

(***************************************************************************)
(* Claims about update_adf_image_dimensions, checked under SpecClamp.      *)
(***************************************************************************)

\* What C4 says of one node, given the node before (a) and after (b) the pass.
\* The rounded height is stated by its distance from the exact quotient:
\* |b.height * a.width - maxWidth * a.height| is at most a.width / 2.
ClampedAsClaimed(a, b, mw) ==
    LET d == b.height.n * a.width.n - mw * a.height.n IN
    /\ b.type = a.type
    /\ IF a.type \in {"media", "mediaInline", "mediaGroup"} /\ a.width.num /\ a.width.n > mw
       THEN /\ b.width = Num(mw)
            /\ IF a.height.num
               THEN /\ b.height.num
                    /\ 2 * d <= a.width.n
                    /\ 2 * (0 - d) <= a.width.n
               ELSE b.height = a.height
       ELSE a.type \in {"media", "mediaInline", "mediaGroup"} =>
                (b.width = a.width /\ b.height = a.height)

RECURSIVE TreeClampedAsClaimed(_, _, _)
TreeClampedAsClaimed(a, b, mw) ==
    /\ ClampedAsClaimed(a, b, mw)
    /\ Len(b.content) = Len(a.content)
    /\ \A i \in 1..Len(a.content) :
          TreeClampedAsClaimed(a.content[i], b.content[i], mw)

\* C4: with a positive maxWidth, every media node whose width is numeric and
\* greater than maxWidth gets width = maxWidth and, if its height is numeric,
\* height = round(maxWidth * height / original width); a node whose width is
\* numeric and at most maxWidth, or not numeric, keeps width and height; a node
\* with no height gets none.
C4_ClampsWidthKeepsRatio ==
    (pc = "once" /\ clampMax.present /\ clampMax.n > 0)
        => TreeClampedAsClaimed(clampIn, clampOut, clampMax.n)

\* Witness of C4: a nested media node of width 4 and height 3 clamped to width 3
\* (height 2, rounded from 2.25), under a parent that is within the limit.
C4_Witness ==
    /\ pc = "once"
    /\ clampMax = Num(3)
    /\ clampIn.type = "doc"
    /\ clampIn.content[1].content[1].type = "media"
    /\ clampIn.content[1].content[1].width = Num(4)
    /\ clampIn.content[1].content[1].height = Num(3)
    /\ clampOut.content[1].content[1].width = Num(3)
    /\ clampOut.content[1].content[1].height = Num(2)
    /\ clampIn.content[1].width = Num(2)
    /\ clampOut.content[1].width = Num(2)

\* C5: the clamping pass is idempotent for every tree and every maxWidth, and
\* with maxWidth zero or absent it returns the tree as it is.
C5_ClampIdempotent ==
    /\ (pc # "start" /\ (~clampMax.present \/ clampMax.n = 0)) => clampOut = clampIn
    /\ pc = "twice" => clampOut2 = clampOut

\* Witness of C5: the first pass changed the tree and the second pass has run.
C5_Witness ==
    /\ pc = "twice"
    /\ clampOut # clampIn
    /\ clampOut2 = clampOut


(***************************************************************************)
(* PART C.  The ADF -> AsciiDoc renderer (adf_resources.py 21-577,         *)
(* 623-755), driven as AdfToAsciidocConverter.convert drives it: one       *)
(* process_node call per top-level node, all with the same context dict.   *)
(***************************************************************************)

\* An optional value: <<>> is an absent key (or None), <<v>> is the value v.
None == <<>>
Some(v) == <<v>>
Has(o) == o # <<>>
Get(o, default) == IF o = <<>> THEN default ELSE o[1]

\* A local assignment: Body with its parameter bound to the value v.
Bind(v, Body(_)) == Body(v)

\* --- str ---------------------------------------------------------------
Whitespace == {" ", "\n", "\t", "\r"}

StartsWith(s, p) == Len(s) >= Len(p) /\ SubSeq(s, 1, Len(p)) = p

EndsWith(s, p) == Len(s) >= Len(p) /\ SubSeq(s, Len(s) - Len(p) + 1, Len(s)) = p

\* `sub in s`
Contains(s, sub) ==
    \E i \in 1..(Len(s) - Len(sub) + 1) : SubSeq(s, i, i + Len(sub) - 1) = sub

\* The first index at which sub occurs in s, 0 when it does not.
Find(s, sub) ==
    IF Contains(s, sub)
    THEN Min({i \in 1..(Len(s) - Len(sub) + 1) : SubSeq(s, i, i + Len(sub) - 1) = sub})
    ELSE 0

\* s.replace(old, new) for a one-character old.
RECURSIVE ReplaceChar(_, _, _)
ReplaceChar(s, old, new) ==
    IF s = <<>> THEN <<>>
    ELSE (IF Head(s) = old THEN new ELSE <<Head(s)>>) \o ReplaceChar(Tail(s), old, new)

\* s.replace(old, new), scanning left to right without overlap.
RECURSIVE Replace(_, _, _)
Replace(s, old, new) ==
    IF Len(s) < Len(old) THEN s
    ELSE IF SubSeq(s, 1, Len(old)) = old
         THEN new \o Replace(SubSeq(s, Len(old) + 1, Len(s)), old, new)
         ELSE <<Head(s)>> \o Replace(Tail(s), old, new)

\* s.lstrip(chars), s.rstrip(chars), s.strip(chars)
RECURSIVE LStrip(_, _)
LStrip(s, cs) ==
    IF s # <<>> /\ Head(s) \in cs THEN LStrip(Tail(s), cs) ELSE s

RECURSIVE RStrip(_, _)
RStrip(s, cs) ==
    IF s # <<>> /\ s[Len(s)] \in cs THEN RStrip(SubSeq(s, 1, Len(s) - 1), cs) ELSE s

Strip(s, cs) == LStrip(RStrip(s, cs), cs)

\* sep.join(parts)
RECURSIVE Join(_, _)
Join(sep, parts) ==
    IF parts = <<>> THEN <<>>
    ELSE IF Len(parts) = 1 THEN parts[1]
    ELSE parts[1] \o sep \o Join(sep, Tail(parts))

\* c * n
RECURSIVE Repeat(_, _)
Repeat(c, n) == IF n <= 0 THEN <<>> ELSE c \o Repeat(c, n - 1)

\* Iterating a str yields its characters: list.extend(str) adds one item each.
CharsOf(s) == [i \in 1..Len(s) |-> <<s[i]>>]

\* The character U+0060 (grave accent), which closes inline code in AsciiDoc; it
\* is written as a symbol because the parser does not read it inside a string.
Backtick == "<grave>"

Digits == {"0", "1", "2", "3", "4", "5", "6", "7", "8", "9"}

Upper ==
    {"A", "B", "C", "D", "E", "F", "G", "H", "I", "J", "K", "L", "M",
     "N", "O", "P", "Q", "R", "S", "T", "U", "V", "W", "X", "Y", "Z"}

\* The longest prefix of s made of characters of cs.
RECURSIVE TakeWhile(_, _)
TakeWhile(s, cs) ==
    IF s # <<>> /\ Head(s) \in cs THEN <<Head(s)>> \o TakeWhile(Tail(s), cs) ELSE <<>>

\* --- nodes, marks and the context ---------------------------------------
\* node.get("attrs", {}) with the attributes the renderers read.  "parameters" is
\* "absent", a "mapping" (whose macroParams hold anchorId, dataValue and the
\* snapshot string) or "malformed" (not a mapping, so that .get on it raises).
NoAttrs ==
    [level |-> None, id |-> None, alt |-> None, language |-> None, url |-> None,
     text |-> None, extensionKey |-> None, parameters |-> "absent",
     anchorId |-> None, dataValue |-> None, snapshot |-> None,
     colspan |-> None, rowspan |-> None]

\* The dict {}: every key absent.
EmptyNode == [type |-> NoType, text |-> <<>>, marks |-> <<>>, content |-> <<>>, attrs |-> NoAttrs]

Node(t, cs) == [EmptyNode EXCEPT !.type = t, !.content = cs]

Text(s, ms) == [EmptyNode EXCEPT !.type = "text", !.text = s, !.marks = ms]

Mark(t) == [type |-> t, href |-> <<>>, sub |-> ""]

Link(h) == [type |-> "link", href |-> h, sub |-> ""]

\* An inlineExtension with extensionKey "anchor" and macroParams[""].value = id.
AnchorMacro(id) ==
    [EmptyNode EXCEPT !.type = "inlineExtension",
                      !.attrs = [NoAttrs EXCEPT !.extensionKey = Some(<<"a", "n", "c", "h", "o", "r">>),
                                                !.parameters = "mapping",
                                                !.anchorId = Some(id)]]

\* The context dict as AdfToAsciidocConverter.convert builds it
\* (confluence_to_asciidoc.py 147-157): no "anchors", "in_table_cell",
\* "in_bullet_list" or "next_node_to_skip" key.
ConvertContext ==
    [list_depth |-> Some(0),
     in_bullet_list |-> None,
     in_table_cell |-> None,
     list_item_indent |-> None,
     anchors |-> None,
     mention_username_to_id |-> None,
     next_node_to_skip |-> None,
     doc_content |-> None,
     base_url |-> None,
     page_mapping |-> <<>>,
     current_file_path |-> None,
     file_id_to_filename |-> <<>>,
     media_files |-> <<>>,
     images_dir |-> <<"i", "m", "a", "g", "e", "s">>,
     confluence_client |-> None]

\* The result of a renderer: the fragments it returned, the context dict it was
\* given as it left it, the heap of shared dicts, and whether it raised.
Ok(out, ctx, heap) == [out |-> out, ctx |-> ctx, heap |-> heap, err |-> FALSE]
Raised(ctx, heap) == [out |-> <<>>, ctx |-> ctx, heap |-> heap, err |-> TRUE]

\* dict[key] = value on the dict object at address a of the heap.
HeapPut(heap, a, key, value) ==
    [heap EXCEPT ![a] = [k \in (DOMAIN heap[a]) \cup {key} |->
                            IF k = key THEN value ELSE heap[a][k]]]

\* context.setdefault(name, {}): the dict the key holds, a new one if absent.
SetDefaultDict(ref, heap) ==
    IF Has(ref) THEN [ref |-> ref, heap |-> heap]
    ELSE [ref |-> Some(Len(heap) + 1), heap |-> Append(heap, <<>>)]

\* --- URLs and paths -----------------------------------------------------
\* s.split(c) for a one-character separator.
RECURSIVE Split(_, _)
Split(s, c) ==
    Bind(Find(s, <<c>>), LAMBDA i :
        IF i = 0 THEN <<s>>
        ELSE <<SubSeq(s, 1, i - 1)>> \o Split(SubSeq(s, i + 1, Len(s)), c))

\* urlparse(url).query and urlparse(url).path of a URL that has no fragment:
\* the query follows the first "?", the path is what precedes it after the
\* scheme and the network location.
UrlQuery(url) ==
    Bind(Find(url, <<"?">>), LAMBDA q :
        IF q = 0 THEN <<>> ELSE SubSeq(url, q + 1, Len(url)))

\* The part of s from the first "/" on, empty when s has none.
FromFirstSlash(s) ==
    Bind(Find(s, <<"/">>), LAMBDA slash :
        IF slash = 0 THEN <<>> ELSE SubSeq(s, slash, Len(s)))

\* The path of a URL that has no query.
PathOf(noQuery) ==
    Bind(Find(noQuery, <<":", "/", "/">>), LAMBDA s :
        IF s = 0 THEN noQuery
        ELSE FromFirstSlash(SubSeq(noQuery, s + 3, Len(noQuery))))

UrlPath(url) ==
    Bind(Find(url, <<"?">>), LAMBDA q :
        PathOf(IF q = 0 THEN url ELSE SubSeq(url, 1, q - 1)))

\* parse_qs(query)["pageId"][0]: the value of the first pageId=value field whose
\* value is not blank; None when there is none.
RECURSIVE FirstPageIdField(_)
FirstPageIdField(fields) ==
    IF fields = <<>> THEN None
    ELSE IF StartsWith(Head(fields), <<"p", "a", "g", "e", "I", "d", "=">>) /\ Len(Head(fields)) > 7
         THEN Some(SubSeq(Head(fields), 8, Len(Head(fields))))
         ELSE FirstPageIdField(Tail(fields))

\* re.search(prefix + r"(\d+)", s): the digits after the leftmost occurrence of
\* prefix that a digit follows; None when there is none.
RECURSIVE SearchDigitsAfter(_, _)
SearchDigitsAfter(s, prefix) ==
    Bind(Find(s, prefix), LAMBDA i :
        IF i = 0 THEN None
        ELSE Bind(TakeWhile(SubSeq(s, i + Len(prefix), Len(s)), Digits), LAMBDA ds :
                IF ds # <<>> THEN Some(ds)
                ELSE SearchDigitsAfter(SubSeq(s, i + 1, Len(s)), prefix)))

\* adf_resources.py 675-708.  (In the third pattern the "." of viewpage.action
\* is read as itself.)
PageIdInPath(path) ==
    Bind(SearchDigitsAfter(path, <<"/", "p", "a", "g", "e", "s", "/">>), LAMBDA byPath :
        IF Has(byPath) THEN byPath
        ELSE SearchDigitsAfter(path, <<"/", "p", "a", "g", "e", "s", "/", "v", "i", "e", "w", "p", "a", "g", "e", ".", "a", "c", "t", "i", "o", "n", "/">>))

ExtractPageIdFromUrl(url) ==
    IF url = <<>> THEN None
    ELSE Bind(FirstPageIdField(Split(UrlQuery(url), "&")), LAMBDA byQuery :
            IF Has(byQuery) THEN byQuery ELSE PageIdInPath(UrlPath(url)))

\* os.path.dirname(p): everything before the last "/", without trailing
\* slashes unless it is the root.
RECURSIVE LastIndexOf(_, _)
LastIndexOf(s, c) ==
    IF s = <<>> THEN 0
    ELSE IF s[Len(s)] = c THEN Len(s)
    ELSE LastIndexOf(SubSeq(s, 1, Len(s) - 1), c)

DirName(p) ==
    Bind(SubSeq(p, 1, LastIndexOf(p, "/")), LAMBDA head :
        Bind(RStrip(head, {"/"}), LAMBDA stripped :
            IF head # <<>> /\ stripped # <<>> THEN stripped ELSE head))

\* The working directory of the process, which os.path.abspath prepends to a
\* relative path.
Cwd == <<"/", "w">>

\* os.path.normpath on the segments of an absolute path.
RECURSIVE NormSegments(_, _)
NormSegments(segs, acc) ==
    IF segs = <<>> THEN acc
    ELSE IF Head(segs) \in {<<>>, <<".">>} THEN NormSegments(Tail(segs), acc)
    ELSE IF Head(segs) = <<".", ".">>
         THEN NormSegments(Tail(segs),
                           IF acc = <<>> THEN acc ELSE SubSeq(acc, 1, Len(acc) - 1))
    ELSE NormSegments(Tail(segs), Append(acc, Head(segs)))

\* [x for x in os.path.abspath(p).split("/") if x]
AbsSegments(p) ==
    NormSegments(Split(IF StartsWith(p, <<"/">>) THEN p ELSE Cwd \o <<"/">> \o p, "/"), <<>>)

RECURSIVE CommonPrefixLen(_, _)
CommonPrefixLen(a, b) ==
    IF a = <<>> \/ b = <<>> \/ Head(a) # Head(b) THEN 0
    ELSE 1 + CommonPrefixLen(Tail(a), Tail(b))

\* os.path.relpath(path, start) for a non-empty path.
\* The relative path from the segments sl to the segments pl, which share
\* their first i segments.
RelSegments(sl, pl, i) ==
    Bind([k \in 1..(Len(sl) - i) |-> <<".", ".">>] \o SubSeq(pl, i + 1, Len(pl)), LAMBDA rel :
        IF rel = <<>> THEN <<".">> ELSE Join(<<"/">>, rel))

RelPathSegments(sl, pl) == RelSegments(sl, pl, CommonPrefixLen(sl, pl))

RelPath(path, start) == RelPathSegments(AbsSegments(start), AbsSegments(path))

\* os.environ.get("JIRA_BASE_URL", "https://jira.example.com")
JiraBaseUrl == <<"h", "t", "t", "p", "s", ":", "/", "/", "j", "i", "r", "a", ".", "e", "x", "a", "m", "p", "l", "e", ".", "c", "o", "m">>

\* re.search(r"/browse/([A-Z]+-\d+)", href): the issue key after the leftmost
\* "/browse/" that one follows; None when there is none.
RECURSIVE SearchIssueKey(_)
\* -\d+ at the start of s: the digits, empty when s does not start so.
DashDigits(s) ==
    IF s # <<>> /\ Head(s) = "-" THEN TakeWhile(Tail(s), Digits) ELSE <<>>

\* [A-Z]+-\d+ at the start of rest: the key, None when rest does not start so.
IssueKeyAt(rest) ==
    Bind(TakeWhile(rest, Upper), LAMBDA letters :
        Bind(DashDigits(SubSeq(rest, Len(letters) + 1, Len(rest))), LAMBDA ds :
            IF letters # <<>> /\ ds # <<>> THEN Some(letters \o <<"-">> \o ds) ELSE None))

SearchIssueKey(s) ==
    Bind(Find(s, <<"/", "b", "r", "o", "w", "s", "e", "/">>), LAMBDA i :
        IF i = 0 THEN None
        ELSE Bind(IssueKeyAt(SubSeq(s, i + 8, Len(s))), LAMBDA key :
                IF Has(key) THEN key ELSE SearchIssueKey(SubSeq(s, i + 1, Len(s)))))

\* --- get_node_text_content ----------------------------------------------
\* context.get("anchors", {}).get(anchor_id)
AnchorKnown(ctx, heap, id) ==
    Has(ctx.anchors) /\ id \in DOMAIN heap[ctx.anchors[1]]

\* The state of the loop over the marks of a text node: the text so far, the
\* deferred link_href, and whether an exception was raised.
MarkState(text) == [text |-> text, link |-> None, err |-> FALSE]

\* adf_resources.py 432-444: the issue-tracker check, then link_href = href.
JiraOrDefer(st, href) ==
    Bind(IF href # <<>> /\ Contains(href, JiraBaseUrl) THEN SearchIssueKey(href) ELSE None,
         LAMBDA key :
            IF Has(key) THEN [st EXCEPT !.text = <<"j", "i", "r", "a", ":">> \o key[1] \o <<"[", "]">>]
            ELSE [st EXCEPT !.link = Some(href)])

\* adf_resources.py 406-430: a link to an anchor on another page.  The test
\* `context.get("base_url") in href` raises TypeError when base_url is None.
CrossPageLink(st, href, ctx) ==
    IF ~Has(ctx.base_url) THEN [st EXCEPT !.err = TRUE]
    ELSE IF ~Contains(href, ctx.base_url[1]) THEN JiraOrDefer(st, href)
    ELSE Bind(Split(href, "#"), LAMBDA parts :
         Bind(ExtractPageIdFromUrl(parts[1]), LAMBDA page_id :
            IF /\ Has(page_id)
               /\ page_id[1] \in DOMAIN ctx.page_mapping
               /\ Has(ctx.page_mapping[page_id[1]].path)
            THEN Bind(ctx.page_mapping[page_id[1]].path[1], LAMBDA target :
                    \* os.path.dirname(None) and os.path.relpath("") raise
                    IF ~Has(ctx.current_file_path) \/ target = <<>>
                    THEN [st EXCEPT !.err = TRUE]
                    ELSE [st EXCEPT !.text =
                             <<"x", "r", "e", "f", ":">> \o RelPath(target, DirName(ctx.current_file_path[1]))
                             \o <<"#">> \o parts[2] \o <<"[">> \o st.text \o <<"]">>])
            ELSE JiraOrDefer([st EXCEPT !.link = Some(href)], href)))

\* adf_resources.py 397-444: the link mark.
LinkMark(st, href, ctx, heap) ==
    IF StartsWith(href, <<"#">>)
    THEN IF AnchorKnown(ctx, heap, Tail(href))
         THEN [st EXCEPT !.text = <<"<", "<">> \o Tail(href) \o <<",">> \o st.text \o <<">", ">">>]
         ELSE JiraOrDefer(st, href)
    ELSE IF Contains(href, <<"#">>) THEN CrossPageLink(st, href, ctx)
    ELSE JiraOrDefer(st, href)

\* adf_resources.py 395-456: one iteration of the loop over the marks.
ApplyMark(st, mark, ctx, heap) ==
    IF st.err THEN st
    ELSE IF mark.type = "link" THEN LinkMark(st, mark.href, ctx, heap)
    ELSE IF mark.type = "strong" THEN [st EXCEPT !.text = <<"*">> \o st.text \o <<"*">>]
    ELSE IF mark.type = "em" THEN [st EXCEPT !.text = <<"_">> \o st.text \o <<"_">>]
    ELSE IF mark.type = "code" THEN [st EXCEPT !.text = <<Backtick>> \o st.text \o <<Backtick>>]
    ELSE IF mark.type = "strike"
         THEN [st EXCEPT !.text = <<"[", ".", "l", "i", "n", "e", "-", "t", "h", "r", "o", "u", "g", "h", "]", "#">> \o st.text \o <<"#">>]
    ELSE IF mark.type = "subsup" /\ mark.sub = "sub"
         THEN [st EXCEPT !.text = <<"~">> \o st.text \o <<"~">>]
    ELSE IF mark.type = "subsup" /\ mark.sub = "sup"
         THEN [st EXCEPT !.text = <<"^">> \o st.text \o <<"^">>]
    ELSE st

RECURSIVE ApplyMarks(_, _, _, _)
ApplyMarks(st, marks, ctx, heap) ==
    IF marks = <<>> THEN st
    ELSE ApplyMarks(ApplyMark(st, Head(marks), ctx, heap), Tail(marks), ctx, heap)

\* adf_resources.py 458-467: the deferred link, nested inside a strong or em
\* wrapper when the text starts and ends with its marker.
ApplyDeferredLink(text, href) ==
    IF StartsWith(text, <<"*">>) /\ EndsWith(text, <<"*">>)
    THEN <<"*", "l", "i", "n", "k", ":">> \o href \o <<"[">> \o Strip(text, {"*"}) \o <<"]", "*">>
    ELSE IF StartsWith(text, <<"_">>) /\ EndsWith(text, <<"_">>)
    THEN <<"_", "l", "i", "n", "k", ":">> \o href \o <<"[">> \o Strip(text, {"_"}) \o <<"]", "_">>
    ELSE <<"l", "i", "n", "k", ":">> \o href \o <<"[">> \o text \o <<"]">>

\* adf_resources.py 390-473: a text node.
TextNodeContent(node, ctx, heap) ==
    Bind(ApplyMarks(MarkState(node.text), node.marks, ctx, heap), LAMBDA st :
        IF st.err THEN [s |-> <<>>, err |-> TRUE]
        ELSE Bind(IF Has(st.link) /\ st.link[1] # <<>>
                  THEN ApplyDeferredLink(st.text, st.link[1]) ELSE st.text,
                  LAMBDA linked :
                    [s |-> IF Get(ctx.in_table_cell, FALSE)
                           THEN ReplaceChar(linked, "|", <<"\\", "|">>) ELSE linked,
                     err |-> FALSE]))

\* adf_resources.py 386-478.  The result is the text and whether it raised.
RECURSIVE GetNodeTextContent(_, _, _)
RECURSIVE JoinTextContent(_, _, _)
JoinTextContent(children, ctx, heap) ==
    IF children = <<>> THEN [s |-> <<>>, err |-> FALSE]
    ELSE Bind(GetNodeTextContent(Head(children), ctx, heap), LAMBDA h :
            IF h.err THEN h
            ELSE Bind(JoinTextContent(Tail(children), ctx, heap), LAMBDA t :
                    IF t.err THEN t ELSE [s |-> h.s \o t.s, err |-> FALSE]))

GetNodeTextContent(node, ctx, heap) ==
    IF node = EmptyNode THEN [s |-> <<>>, err |-> FALSE]
    ELSE IF node.type = "text" THEN TextNodeContent(node, ctx, heap)
    ELSE JoinTextContent(node.content, ctx, heap)

\* --- process_text_node --------------------------------------------------
\* adf_resources.py 500-517: the link mark of a text node rendered directly.
\* `context.get("base_url") in url` raises TypeError when page_mapping is not
\* empty and base_url is None; page_mapping[page_id]["path"] raises KeyError
\* when the entry has no path.
DirectLinkMark(st, url, ctx) ==
    IF DOMAIN ctx.page_mapping # {} /\ ~Has(ctx.base_url) THEN [st EXCEPT !.err = TRUE]
    ELSE Bind(IF DOMAIN ctx.page_mapping # {} /\ Contains(url, ctx.base_url[1])
              THEN ExtractPageIdFromUrl(url) ELSE None,
              LAMBDA page_id :
                IF Has(page_id) /\ page_id[1] \in DOMAIN ctx.page_mapping
                THEN Bind(ctx.page_mapping[page_id[1]], LAMBDA entry :
                        IF \/ ~Has(entry.path)
                           \/ ~Has(ctx.current_file_path)
                           \/ entry.path[1] = <<>>
                        THEN [st EXCEPT !.err = TRUE]
                        ELSE [st EXCEPT !.text =
                                 <<"x", "r", "e", "f", ":">>
                                 \o RelPath(entry.path[1], DirName(ctx.current_file_path[1]))
                                 \o <<"[">> \o st.text \o <<"]">>])
                ELSE [st EXCEPT !.text = <<"l", "i", "n", "k", ":">> \o url \o <<"[">> \o st.text \o <<"]">>])

\* adf_resources.py 487-517: one iteration of the loop over the marks.
ApplyDirectMark(st, mark, ctx) ==
    IF st.err THEN st
    ELSE IF mark.type = "strong" THEN [st EXCEPT !.text = <<"*">> \o st.text \o <<"*">>]
    ELSE IF mark.type = "em" THEN [st EXCEPT !.text = <<"_">> \o st.text \o <<"_">>]
    ELSE IF mark.type = "code" THEN [st EXCEPT !.text = <<Backtick>> \o st.text \o <<Backtick>>]
    ELSE IF mark.type = "strike"
         THEN [st EXCEPT !.text = <<"[", ".", "l", "i", "n", "e", "-", "t", "h", "r", "o", "u", "g", "h", "]", "#">> \o st.text \o <<"#">>]
    ELSE IF mark.type = "underline"
         THEN [st EXCEPT !.text = <<"[", ".", "u", "n", "d", "e", "r", "l", "i", "n", "e", "]", "#">> \o st.text \o <<"#">>]
    ELSE IF mark.type = "link" THEN DirectLinkMark(st, mark.href, ctx)
    ELSE st

RECURSIVE ApplyDirectMarks(_, _, _)
ApplyDirectMarks(st, marks, ctx) ==
    IF marks = <<>> THEN st
    ELSE ApplyDirectMarks(ApplyDirectMark(st, Head(marks), ctx), Tail(marks), ctx)

\* adf_resources.py 481-519.
ProcessTextNode(node, ctx) ==
    Bind(ApplyDirectMarks(MarkState(node.text), node.marks, ctx), LAMBDA st :
        [s |-> st.text, err |-> st.err])

\* --- the block renderers ------------------------------------------------
\* adf_resources.py 31-36: the title of the first media file with this id.
RECURSIVE MediaFileTitle(_, _)
MediaFileTitle(files, id) ==
    IF files = <<>> THEN <<>>
    ELSE IF Head(files).id = Some(id) THEN Get(Head(files).title, <<>>)
    ELSE MediaFileTitle(Tail(files), id)

\* adf_resources.py 21-48.
ProcessMediaNode(node, ctx) ==
    LET media_id == Get(node.attrs.id, <<>>)
        alt_text == Get(node.attrs.alt, <<>>)
        mapped == IF media_id \in DOMAIN ctx.file_id_to_filename
                  THEN ctx.file_id_to_filename[media_id] ELSE <<>>
        found == IF mapped = <<>> /\ ctx.media_files # <<>>
                 THEN MediaFileTitle(ctx.media_files, media_id) ELSE mapped
        image_filename == IF found = <<>> THEN media_id \o <<".", "p", "n", "g">>
                          ELSE IF ~Contains(found, <<".">>) THEN found \o <<".", "p", "n", "g">>
                          ELSE found
    IN IF alt_text # <<>>
       THEN << <<".">> \o alt_text \o <<"\n", "i", "m", "a", "g", "e", ":", ":">> \o image_filename \o <<"[", "]", "\n">> >>
       ELSE << <<"i", "m", "a", "g", "e", ":", ":">> \o image_filename \o <<"[", "]", "\n">> >>

\* adf_resources.py 51-63.
ProcessMediaSingleNode(node, ctx) ==
    LET media_nodes == SelectSeq(node.content, LAMBDA c : c.type = "media") IN
    IF media_nodes = <<>> THEN <<>>
    ELSE << <<"\n">> \o ProcessMediaNode(media_nodes[1], ctx)[1] >>

\* adf_resources.py 66-71.  The result is the fragments and whether it raised.
ProcessHeadingNode(node, ctx, heap) ==
    Bind(GetNodeTextContent(node, ctx, heap), LAMBDA t :
        [out |-> << <<"\n">> \o Repeat(<<"=">>, Get(node.attrs.level, 1)) \o <<" ">> \o t.s
                    \o <<"\n">> >>,
         err |-> t.err])

\* adf_resources.py 214-230.
RECURSIVE CodeContent(_)
CodeContent(children) ==
    IF children = <<>> THEN <<>>
    ELSE (IF Head(children).type = "text" THEN Head(children).text ELSE <<>>)
         \o CodeContent(Tail(children))

ProcessCodeBlockNode(node) ==
    << <<"\n", "[", "s", "o", "u", "r", "c", "e", ",">> \o Get(node.attrs.language, <<>>) \o <<"]">>,
       <<"\n", "-", "-", "-", "-">>,
       <<"\n">> \o CodeContent(node.content),
       <<"\n", "-", "-", "-", "-", "\n">> >>

\* str(e) of an exception raised while the macro parameters are extracted: an
\* AttributeError or a json.JSONDecodeError, whose text is not looked into.
ExtractionError == <<"<exception text>">>

\* adf_resources.py 261-267: the ids of the fields marked available.
RECURSIVE AvailableFields(_)
AvailableFields(fs) ==
    IF fs = <<>> THEN <<>>
    ELSE (IF Head(fs).available /\ Get(Head(fs).id, <<>>) # <<>>
          THEN <<Head(fs).id[1]>> ELSE <<>>) \o AvailableFields(Tail(fs))

\* adf_resources.py 243-288.  attrs.snapshot is the decoded macroParams value:
\* None when the path to it is missing (the default "{}" is parsed), otherwise
\* whether it parses and the levels it holds.
JqlSnapshot(node) ==
    IF node.attrs.parameters = "malformed"
    THEN << <<"\n", "/", "/", " ", "E", "r", "r", "o", "r", " ", "p", "r", "o", "c", "e", "s", "s", "i", "n", "g", " ", "J", "I", "R", "A", " ", "s", "n", "a", "p", "s", "h", "o", "t", ":", " ">> \o ExtractionError \o <<"\n">> >>
    ELSE IF ~Has(node.attrs.snapshot) THEN <<>>
    ELSE IF ~node.attrs.snapshot[1].parses
    THEN << <<"\n", "/", "/", " ", "E", "r", "r", "o", "r", " ", "p", "r", "o", "c", "e", "s", "s", "i", "n", "g", " ", "J", "I", "R", "A", " ", "s", "n", "a", "p", "s", "h", "o", "t", ":", " ">> \o ExtractionError \o <<"\n">> >>
    ELSE IF node.attrs.snapshot[1].levels = <<>> THEN <<>>
    ELSE LET level == node.attrs.snapshot[1].levels[1]
             fields_str == Join(<<",">>, AvailableFields(level.fieldsPosition))
         IN IF level.title # <<>>
            THEN << <<"\n", "j", "i", "r", "a", "I", "s", "s", "u", "e", "s", "T", "a", "b", "l", "e", ":", ":", "[", "'">> \o level.jql \o <<"'", ",", " ", "f", "i", "e", "l", "d", "s", "=", "\"">> \o fields_str
                    \o <<"\"", ",", " ", "t", "i", "t", "l", "e", "=", "\"">> \o level.title \o <<"\"", "]", "\n">> >>
            ELSE << <<"\n", "j", "i", "r", "a", "I", "s", "s", "u", "e", "s", "T", "a", "b", "l", "e", ":", ":", "[", "'">> \o level.jql \o <<"'", ",", " ", "f", "i", "e", "l", "d", "s", "=", "\"">> \o fields_str
                    \o <<"\"", "]", "\n">> >>

\* adf_resources.py 291-319.
ApproversMacro(node) ==
    IF node.attrs.parameters = "absent"
    THEN << <<"\n", "/", "/", " ", "E", "r", "r", "o", "r", " ", "p", "r", "o", "c", "e", "s", "s", "i", "n", "g", " ", "W", "o", "r", "k", "f", "l", "o", "w", " ", "A", "p", "p", "r", "o", "v", "e", "r", "s", ":", " ", "M", "i", "s", "s", "i", "n", "g", " ", "r", "e", "q", "u", "i", "r", "e", "d", " ", "p", "a", "r", "a", "m", "e", "t", "e", "r", "s", " ", "s", "t", "r", "u", "c", "t", "u", "r", "e", "\n">> >>
    ELSE IF node.attrs.parameters = "malformed"
    THEN << <<"\n", "/", "/", " ", "E", "r", "r", "o", "r", " ", "p", "r", "o", "c", "e", "s", "s", "i", "n", "g", " ", "W", "o", "r", "k", "f", "l", "o", "w", " ", "A", "p", "p", "r", "o", "v", "e", "r", "s", ":", " ">> \o ExtractionError \o <<"\n">> >>
    ELSE IF Get(node.attrs.dataValue, <<>>) = <<"L", "a", "t", "e", "s", "t", " ", "A", "p", "p", "r", "o", "v", "a", "l", "s", " ", "f", "o", "r", " ", "C", "u", "r", "r", "e", "n", "t", " ", "W", "o", "r", "k", "f", "l", "o", "w">>
    THEN << <<"\n", "w", "o", "r", "k", "f", "l", "o", "w", "A", "p", "p", "r", "o", "v", "a", "l", ":", "l", "a", "t", "e", "s", "t", "[", "]", "\n">> >>
    ELSE << <<"\n", "w", "o", "r", "k", "f", "l", "o", "w", "A", "p", "p", "r", "o", "v", "a", "l", ":", "a", "l", "l", "[", "]", "\n">> >>

\* adf_resources.py 322-334.
ChangeTableMacro(node) ==
    IF node.attrs.parameters = "absent"
    THEN << <<"\n", "/", "/", " ", "E", "r", "r", "o", "r", " ", "p", "r", "o", "c", "e", "s", "s", "i", "n", "g", " ", "W", "o", "r", "k", "f", "l", "o", "w", " ", "C", "h", "a", "n", "g", "e", " ", "T", "a", "b", "l", "e", ":", " ", "M", "i", "s", "s", "i", "n", "g", " ", "r", "e", "q", "u", "i", "r", "e", "d", " ", "p", "a", "r", "a", "m", "e", "t", "e", "r", "s", " ", "s", "t", "r", "u", "c", "t", "u", "r", "e", "\n">> >>
    ELSE << <<"\n", "w", "o", "r", "k", "f", "l", "o", "w", "C", "h", "a", "n", "g", "e", "T", "a", "b", "l", "e", ":", "[", "]", "\n">> >>

\* adf_resources.py 233-336.
ProcessExtensionNode(node) ==
    LET ext_key == Get(node.attrs.extensionKey, <<>>) IN
    IF ext_key = <<"t", "o", "c">> THEN << <<"\n", ":", "t", "o", "c", ":", "\n">> >>
    ELSE IF ext_key = <<"j", "i", "r", "a", "-", "j", "q", "l", "-", "s", "n", "a", "p", "s", "h", "o", "t">> THEN JqlSnapshot(node)
    ELSE IF ext_key = <<"a", "p", "p", "r", "o", "v", "e", "r", "s", "-", "m", "a", "c", "r", "o">> THEN ApproversMacro(node)
    ELSE IF ext_key = <<"d", "o", "c", "u", "m", "e", "n", "t", "-", "c", "o", "n", "t", "r", "o", "l", "-", "t", "a", "b", "l", "e", "-", "m", "a", "c", "r", "o">> THEN ChangeTableMacro(node)
    ELSE <<>>

\* adf_resources.py 365-373.
WorkflowMetadataKeywordsReverse ==
    { <<<<"A", "p", "p", "r", "o", "v", "e", "r", "s", " ", "f", "o", "r", " ", "C", "u", "r", "r", "e", "n", "t", " ", "S", "t", "a", "t", "u", "s">>, <<"a", "p", "p", "r", "o", "v", "e", "r", "s">>>>,
      <<<<"C", "u", "r", "r", "e", "n", "t", " ", "O", "f", "f", "i", "c", "i", "a", "l", " ", "V", "e", "r", "s", "i", "o", "n", " ", "D", "e", "s", "c", "r", "i", "p", "t", "i", "o", "n">>, <<"v", "e", "r", "s", "i", "o", "n", "d", "e", "s", "c">>>>,
      <<<<"C", "u", "r", "r", "e", "n", "t", " ", "O", "f", "f", "i", "c", "i", "a", "l", " ", "V", "e", "r", "s", "i", "o", "n">>, <<"v", "e", "r", "s", "i", "o", "n">>>>,
      <<<<"E", "x", "p", "i", "r", "y", " ", "D", "a", "t", "e">>, <<"e", "x", "p", "i", "r", "y">>>>,
      <<<<"T", "r", "a", "n", "s", "i", "t", "i", "o", "n", " ", "D", "a", "t", "e">>, <<"t", "r", "a", "n", "s", "i", "t", "i", "o", "n">>>>,
      <<<<"U", "n", "i", "q", "u", "e", " ", "P", "a", "g", "e", " ", "I", "D">>, <<"p", "a", "g", "e", "i", "d">>>>,
      <<<<"W", "o", "r", "k", "f", "l", "o", "w", " ", "S", "t", "a", "t", "u", "s">>, <<"s", "t", "a", "t", "u", "s">>>> }

\* adf_resources.py 356-381.
MetadataMacro(node) ==
    LET data_value == Get(node.attrs.dataValue, <<>>)
        hits == {kv \in WorkflowMetadataKeywordsReverse : kv[1] = data_value}
    IN IF hits # {}
       THEN << <<"a", "p", "p", "f", "o", "x", "W", "o", "r", "k", "f", "l", "o", "w", "M", "e", "t", "a", "d", "a", "t", "a", ":">> \o (CHOOSE kv \in hits : TRUE)[2] \o <<"[", "]">> >>
       ELSE << <<"/", "/", " ", "U", "n", "k", "n", "o", "w", "n", " ", "w", "o", "r", "k", "f", "l", "o", "w", " ", "m", "e", "t", "a", "d", "a", "t", "a", ":", " ">> \o data_value >>

\* adf_resources.py 344-355: the anchor macro registers its id with
\* context.setdefault("anchors", {})[anchor_id] = True and emits [[id]].
AnchorMacroNode(node, ctx, heap) ==
    LET anchor_id == Get(node.attrs.anchorId, <<>>) IN
    IF anchor_id = <<>> THEN Ok(<<>>, ctx, heap)
    ELSE LET d == SetDefaultDict(ctx.anchors, heap) IN
         Ok(<< <<"[", "[">> \o anchor_id \o <<"]", "]">> >>,
            [ctx EXCEPT !.anchors = d.ref],
            HeapPut(d.heap, d.ref[1], anchor_id, TRUE))

\* adf_resources.py 339-383.  Nothing here catches the AttributeError of a
\* parameters value that is not a mapping.
ProcessInlineExtensionNode(node, ctx, heap) ==
    LET ext_key == Get(node.attrs.extensionKey, <<>>) IN
    IF ext_key \notin {<<"a", "n", "c", "h", "o", "r">>, <<"m", "e", "t", "a", "d", "a", "t", "a", "-", "m", "a", "c", "r", "o">>} THEN Ok(<<>>, ctx, heap)
    ELSE IF node.attrs.parameters = "malformed" THEN Raised(ctx, heap)
    ELSE IF ext_key = <<"a", "n", "c", "h", "o", "r">> THEN AnchorMacroNode(node, ctx, heap)
    ELSE Ok(MetadataMacro(node), ctx, heap)

\* adf_resources.py 711-730.
ProcessMentionNode(node, ctx, heap) ==
    LET mention_text == Get(node.attrs.text, <<>>)
        username == IF StartsWith(mention_text, <<"@">>) THEN Tail(mention_text)
                    ELSE mention_text
        macro_username == ReplaceChar(username, " ", <<"_">>)
        d == SetDefaultDict(ctx.mention_username_to_id, heap)
    IN Ok(<< <<"a", "t", "l", "a", "s", "M", "e", "n", "t", "i", "o", "n", ":">> \o macro_username \o <<"[", "]">> >>,
          [ctx EXCEPT !.mention_username_to_id = d.ref],
          HeapPut(d.heap, d.ref[1], macro_username, Get(node.attrs.id, <<>>)))

\* Mutant of ProcessInlineCardNode: the title the client answers is not used.
ProcessInlineCardNodeUrlOnly(node, ctx) ==
    IF Get(node.attrs.url, <<>>) = <<>> THEN <<>>
    ELSE << <<"l", "i", "n", "k", ":">> \o node.attrs.url[1] \o <<"[">> \o node.attrs.url[1] \o <<"]">> >>

\* adf_resources.py 733-755.  The client answers a title or None.
ProcessInlineCardNode(node, ctx) ==
    LET url == Get(node.attrs.url, <<>>)
        client == ctx.confluence_client
        title == IF ~Has(client) THEN None
                 ELSE IF Contains(url, <<"a", "t", "l", "a", "s", "s", "i", "a", "n", ".", "n", "e", "t", "/", "w", "i", "k", "i">>) THEN client[1].page_title
                 ELSE IF Contains(url, <<"a", "t", "l", "a", "s", "s", "i", "a", "n", ".", "n", "e", "t", "/", "b", "r", "o", "w", "s", "e">>) THEN client[1].ticket_title
                 ELSE None
        link_text == IF Get(title, <<>>) # <<>> THEN title[1] ELSE url
    IN IF url = <<>> THEN <<>>
       ELSE << <<"l", "i", "n", "k", ":">> \o url \o <<"[">> \o link_text \o <<"]">> >>

\* --- process_node and the renderers that call back into it --------------
RECURSIVE ProcessNode(_, _, _, _)
RECURSIVE ParagraphParts(_, _, _)
RECURSIVE CellContent(_, _)
RECURSIVE RowCells(_, _, _)
RECURSIVE TableRows(_, _, _)
RECURSIVE ListItems(_, _, _, _)
RECURSIVE ItemContent(_, _, _, _)
RECURSIVE ProcessEach(_, _, _, _)

\* adf_resources.py 78: the inline children a paragraph hands to process_node.
AdditionalProcessingNeeds == {"inlineExtension", "mention", "inlineCard"}

\* adf_resources.py 86-94: the parts of a paragraph with such a child, joined.
ParagraphParts(children, ctx, heap) ==
    IF children = <<>> THEN [s |-> <<>>, ctx |-> ctx, heap |-> heap, err |-> FALSE]
    ELSE Bind(IF Head(children).type \in AdditionalProcessingNeeds
              THEN Bind(ProcessNode(Head(children), ctx, heap, <<>>), LAMBDA r :
                      [s |-> Flatten(r.out), ctx |-> r.ctx, heap |-> r.heap, err |-> r.err])
              ELSE Bind(GetNodeTextContent(Head(children), ctx, heap), LAMBDA t :
                      [s |-> t.s, ctx |-> ctx, heap |-> heap, err |-> t.err]),
              LAMBDA h :
                IF h.err THEN h
                ELSE Bind(ParagraphParts(Tail(children), h.ctx, h.heap), LAMBDA rest :
                        [rest EXCEPT !.s = h.s \o rest.s]))

\* adf_resources.py 74-102.
ProcessParagraphNode(node, ctx, heap, indent) ==
    IF \E i \in 1..Len(node.content) : node.content[i].type \in AdditionalProcessingNeeds
    THEN Bind(ParagraphParts(node.content, ctx, heap), LAMBDA p :
            IF p.err THEN Raised(p.ctx, p.heap)
            ELSE Ok(<< indent \o p.s \o <<"\n">> >>, p.ctx, p.heap))
    ELSE Bind(GetNodeTextContent(node, ctx, heap), LAMBDA t :
            IF t.err THEN Raised(ctx, heap)
            ELSE IF Strip(t.s, Whitespace) # <<>>
                 THEN Ok(<< indent \o t.s \o <<"\n">> >>, ctx, heap)
                 ELSE Ok(<< <<>> >>, ctx, heap))

\* Mutant of ComplexCellTypes: a panel does not make a cell complex.
ComplexCellTypesNoPanel == {"bulletList", "orderedList", "codeBlock"}

\* adf_resources.py 148-153: the children that make a cell complex.
ComplexCellTypes == {"bulletList", "orderedList", "codeBlock", "panel"}

\* adf_resources.py 146-164: the loop over the content of a cell, all rendered
\* with the same cell_context.
CellContent(children, st) ==
    IF children = <<>> \/ st.err THEN st
    ELSE Bind(Head(children), LAMBDA c :
         Bind(IF c.type \in ComplexCellTypes /\ st.hadPara /\ st.lines # <<>>
              THEN Append(st.lines, <<>>) ELSE st.lines, LAMBDA spaced :
         Bind(ProcessNode(c, st.cctx, st.heap, <<>>), LAMBDA r :
         Bind(Strip(Flatten(r.out), Whitespace), LAMBDA content_result :
            CellContent(Tail(children),
                [cctx |-> r.ctx,
                 heap |-> r.heap,
                 lines |-> IF content_result # <<>> THEN Append(spaced, content_result)
                           ELSE spaced,
                 complex |-> st.complex \/ c.type \in ComplexCellTypes,
                 hadPara |-> c.type = "paragraph",
                 err |-> r.err])))))

\* adf_resources.py 136-137: cell_context = context.copy(), a new dict with the
\* same values (the same anchors dict, if the key is there), in_table_cell set.
CellContext(ctx) == [ctx EXCEPT !.in_table_cell = Some(TRUE)]

\* adf_resources.py 134-175.  The result is the cell text, whether the cell is
\* complex, the heap, and whether it raised; the caller's context dict is not
\* assigned to.
ProcessTableCellNode(node, ctx, heap) ==
    Bind(CellContent(node.content,
             [cctx |-> CellContext(ctx), heap |-> heap, lines |-> <<>>,
              complex |-> FALSE, hadPara |-> FALSE, err |-> FALSE]), LAMBDA st :
    Bind(Join(<<"\n">>, st.lines), LAMBDA joined :
    Bind(IF ~st.complex
         THEN Replace(ReplaceChar(joined, "|", <<"\\", "|">>), <<"\\", "\\", "|">>, <<"\\", "|">>)
         ELSE joined, LAMBDA cell_text :
        [text |-> cell_text,
         complex |-> st.complex \/ Contains(cell_text, <<"\n">>),
         heap |-> st.heap,
         err |-> st.err])))

\* adf_resources.py 122-129: every child of the row is rendered as a cell.
RowCells(children, ctx, heap) ==
    IF children = <<>> THEN [cells |-> <<>>, heap |-> heap, err |-> FALSE]
    ELSE Bind(ProcessTableCellNode(Head(children), ctx, heap), LAMBDA c :
            IF c.err THEN [cells |-> <<>>, heap |-> c.heap, err |-> TRUE]
            ELSE Bind(RowCells(Tail(children), ctx, c.heap), LAMBDA rest :
                    [rest EXCEPT !.cells =
                        <<(IF c.complex THEN <<"a", "|", " ">> ELSE <<"|", " ">>) \o c.text>> \o rest.cells]))

\* adf_resources.py 119-131.  The result is a str, not a list.
ProcessTableRowNode(node, ctx, heap) ==
    Bind(RowCells(node.content, ctx, heap), LAMBDA r :
        [s |-> Join(<<" ">>, r.cells) \o <<"\n">>, heap |-> r.heap, err |-> r.err])

\* adf_resources.py 110-113: the tableRow children of a table.
TableRows(children, ctx, heap) ==
    IF children = <<>> THEN [s |-> <<>>, heap |-> heap, err |-> FALSE]
    ELSE IF Head(children).type # "tableRow" THEN TableRows(Tail(children), ctx, heap)
    ELSE Bind(ProcessTableRowNode(Head(children), ctx, heap), LAMBDA r :
            IF r.err THEN r
            ELSE Bind(TableRows(Tail(children), ctx, r.heap), LAMBDA rest :
                    [rest EXCEPT !.s = r.s \o rest.s]))

\* adf_resources.py 105-116.  The result is a str, not a list.
ProcessTableNode(node, ctx, heap) ==
    Bind(TableRows(node.content, ctx, heap), LAMBDA r :
        [s |-> <<"|", "=", "=", "=", "\n">> \o r.s \o <<"|", "=", "=", "=", "\n">>, heap |-> r.heap, err |-> r.err])

\* Mutant of ItemMarker: every item is marked as a bulleted one.
ItemMarkerAlwaysBullet(ctx) == Repeat(<<"*">>, Get(ctx.list_depth, 1))

\* adf_resources.py 635-639.
ItemMarker(ctx) ==
    Repeat(IF Get(ctx.in_bullet_list, TRUE) THEN <<"*">> ELSE <<".">>, Get(ctx.list_depth, 1))

\* adf_resources.py 647-670: the lines of a list item after a child whose
\* rendering is text.
ItemLines(c, ctx, indent, st, text) ==
    Bind(ItemMarker(ctx), LAMBDA marker :
    Bind(IF Get(ctx.in_table_cell, FALSE) THEN <<>> ELSE indent, LAMBDA para_indent :
        IF c.type = "paragraph" /\ st.lines = <<>>
        THEN Append(st.lines, para_indent \o marker \o <<" ">> \o RStrip(text, Whitespace))
        ELSE IF c.type \in {"bulletList", "orderedList"}
        THEN (IF st.lines # <<>>
              THEN Append(st.lines, <<"\n">> \o text)
              ELSE Append(st.lines, para_indent \o marker \o <<"\n">> \o text))
        ELSE Bind(RStrip(text, Whitespace), LAMBDA item_content :
                IF item_content # <<>>
                THEN Append(st.lines, indent \o <<" ", " ">> \o item_content)
                ELSE st.lines)))

\* adf_resources.py 645-670: the loop over the content of a list item, all
\* rendered with the same item_context; ctx is the context of the list.
ItemContent(children, ctx, indent, st) ==
    IF children = <<>> \/ st.err THEN st
    ELSE Bind(Head(children), LAMBDA c :
         Bind(ProcessNode(c, st.ictx, st.heap,
                  IF ~(c.type = "paragraph" /\ st.lines = <<>>)
                     /\ c.type \in {"bulletList", "orderedList"}
                  THEN (IF st.lines # <<>> THEN indent \o <<" ", " ">> ELSE indent)
                  ELSE <<>>), LAMBDA r :
            ItemContent(Tail(children), ctx, indent,
                [ictx |-> r.ctx, heap |-> r.heap,
                 lines |-> ItemLines(c, ctx, indent, st, Flatten(r.out)),
                 err |-> r.err])))

\* adf_resources.py 642-643: item_context = context.copy() with list_item_indent.
ItemContext(ctx) == [ctx EXCEPT !.list_item_indent = Some(ItemMarker(ctx) \o <<" ">>)]

\* adf_resources.py 623-672.  The result is the lines of the item, the heap, and
\* whether it raised; the caller's context dict is not assigned to.
ProcessListItemContent(item, ctx, heap, indent) ==
    Bind(ItemContent(item.content, ctx, indent,
             [ictx |-> ItemContext(ctx), heap |-> heap, lines |-> <<>>, err |-> FALSE]),
         LAMBDA st : [lines |-> st.lines, heap |-> st.heap, err |-> st.err])

\* adf_resources.py 191-197: the listItem children of a list.
ListItems(children, ctx, heap, indent) ==
    IF children = <<>> THEN [result |-> <<>>, heap |-> heap, err |-> FALSE]
    ELSE IF Head(children).type # "listItem" THEN ListItems(Tail(children), ctx, heap, indent)
    ELSE Bind(ProcessListItemContent(Head(children), ctx, heap, indent), LAMBDA it :
            IF it.err THEN [result |-> <<>>, heap |-> it.heap, err |-> TRUE]
            ELSE Bind(ListItems(Tail(children), ctx, it.heap, indent), LAMBDA rest :
                    [rest EXCEPT !.result = <<Join(<<"\n">>, it.lines)>> \o rest.result]))

\* Mutant of LeaveList: in_bullet_list is removed but list_depth is kept.
LeaveListNoDecrement(entered) == [entered EXCEPT !.in_bullet_list = None]

\* adf_resources.py 199-203: list_depth is decremented and in_bullet_list is
\* removed when the depth is back to 0.
LeaveList(entered) ==
    [entered EXCEPT !.list_depth = Some(entered.list_depth[1] - 1),
                    !.in_bullet_list = IF entered.list_depth[1] - 1 = 0 THEN None ELSE @]

\* adf_resources.py 178-211.  An exception leaves list_depth incremented.
ProcessListNode(node, ctx, heap, indent) ==
    Bind([ctx EXCEPT !.list_depth = Some(Get(ctx.list_depth, 0) + 1),
                     !.in_bullet_list = Some(node.type = "bulletList")], LAMBDA entered :
    Bind(ListItems(node.content, entered, heap, indent), LAMBDA items :
    Bind(Join(<<"\n">>, items.result), LAMBDA joined :
        IF items.err THEN Raised(entered, items.heap)
        ELSE IF ~Get(entered.in_table_cell, FALSE) /\ joined # <<>>
        THEN Ok(<< <<"\n">> \o joined \o <<"\n", "\n">> >>, LeaveList(entered), items.heap)
        ELSE Ok(<< <<"\n">> \o joined >>, LeaveList(entered), items.heap))))

\* adf_resources.py 570-574: the fallback for a type that is not routed.
ProcessEach(children, ctx, heap, indent) ==
    IF children = <<>> THEN Ok(<<>>, ctx, heap)
    ELSE Bind(ProcessNode(Head(children), ctx, heap, indent), LAMBDA r :
            IF r.err THEN r
            ELSE Bind(ProcessEach(Tail(children), r.ctx, r.heap, indent), LAMBDA rest :
                    [rest EXCEPT !.out = r.out \o rest.out]))

\* adf_resources.py 134: process_table_cell_node(node, context) has two
\* parameters; adf_resources.py 547: process_node calls it with three
\* arguments, which raises TypeError before the function runs.
TableCellParameters == 2
TableCellArguments == 3

\* adf_resources.py 546-548.
DispatchTableCell(node, ctx, heap) ==
    IF TableCellArguments # TableCellParameters THEN Raised(ctx, heap)
    ELSE Bind(ProcessTableCellNode(node, ctx, heap), LAMBDA c :
            IF c.err THEN Raised(ctx, c.heap) ELSE Ok(<<c.text>>, ctx, c.heap))

\* adf_resources.py 536-568: the types process_node routes to a renderer.
RoutedTypes ==
    {"mediaSingle", "heading", "paragraph", "table", "tableRow", "tableCell",
     "tableHeader", "media", "bulletList", "orderedList", "listItem", "codeBlock",
     "extension", "inlineExtension", "mention", "inlineCard", "text"}

\* adf_resources.py 569-577.
Fallback(node, ctx, heap, indent) == ProcessEach(node.content, ctx, heap, indent)

\* adf_resources.py 533-577: the routing by node type.
Dispatch(node, ctx, heap, indent) ==
    LET t == node.type IN
    IF t = "mediaSingle" THEN Ok(ProcessMediaSingleNode(node, ctx), ctx, heap)
    ELSE IF t = "heading"
    THEN Bind(ProcessHeadingNode(node, ctx, heap), LAMBDA h :
            IF h.err THEN Raised(ctx, heap) ELSE Ok(h.out, ctx, heap))
    ELSE IF t = "paragraph" THEN ProcessParagraphNode(node, ctx, heap, indent)
    ELSE IF t = "table"
    THEN Bind(ProcessTableNode(node, ctx, heap), LAMBDA r :
            IF r.err THEN Raised(ctx, r.heap) ELSE Ok(CharsOf(r.s), ctx, r.heap))
    ELSE IF t = "tableRow"
    THEN Bind(ProcessTableRowNode(node, ctx, heap), LAMBDA r :
            IF r.err THEN Raised(ctx, r.heap) ELSE Ok(CharsOf(r.s), ctx, r.heap))
    ELSE IF t \in {"tableCell", "tableHeader"} THEN DispatchTableCell(node, ctx, heap)
    ELSE IF t = "media" THEN Ok(ProcessMediaNode(node, ctx), ctx, heap)
    ELSE IF t \in {"bulletList", "orderedList"} THEN ProcessListNode(node, ctx, heap, indent)
    ELSE IF t = "listItem"
    THEN Bind(ProcessListItemContent(node, ctx, heap, indent), LAMBDA it :
            IF it.err THEN Raised(ctx, it.heap)
            ELSE Ok(<<Join(<<"\n">>, it.lines)>>, ctx, it.heap))
    ELSE IF t = "codeBlock" THEN Ok(ProcessCodeBlockNode(node), ctx, heap)
    ELSE IF t = "extension" THEN Ok(ProcessExtensionNode(node), ctx, heap)
    ELSE IF t = "inlineExtension" THEN ProcessInlineExtensionNode(node, ctx, heap)
    ELSE IF t = "mention" THEN ProcessMentionNode(node, ctx, heap)
    ELSE IF t = "inlineCard" THEN Ok(ProcessInlineCardNode(node, ctx), ctx, heap)
    ELSE IF t = "text"
    THEN Bind(ProcessTextNode(node, ctx), LAMBDA s :
            IF s.err THEN Raised(ctx, heap) ELSE Ok(<<s.s>>, ctx, heap))
    ELSE Fallback(node, ctx, heap, indent)

\* adf_resources.py 525: context.get("next_node_to_skip") == node compares the
\* two dicts by their contents.
SkipMatches(ctx, node) == ctx.next_node_to_skip = Some(node)

\* adf_resources.py 522-577.
ProcessNode(node, ctx, heap, indent) ==
    IF SkipMatches(ctx, node)
    THEN Ok(<<>>, [ctx EXCEPT !.next_node_to_skip = None], heap)
    ELSE Dispatch(node,
                  IF node.type = "doc"
                  THEN [ctx EXCEPT !.doc_content = Some(node.content)] ELSE ctx,
                  heap, indent)

\* --- the documents rendered ---------------------------------------------
Para(cs) == Node("paragraph", cs)

Plain(s) == Text(s, <<>>)

\* A paragraph whose text links to the same-page anchor id.
ParaLink(id) == Para(<<Text(<<"t">>, <<Link(<<"#">> \o id)>>)>>)

\* A paragraph, a list item and a table cell that each hold the anchor macro.
ParaAnchor(id) == Para(<<AnchorMacro(id), Plain(<<"t">>)>>)

ListAnchor(id) == Node("bulletList", <<Node("listItem", <<ParaAnchor(id)>>)>>)

TableAnchor(id) ==
    Node("table", <<Node("tableRow", <<Node("tableCell", <<ParaAnchor(id)>>)>>)>>)

\* The blocks whose order decides how a same-page link resolves.
AnchorBlocks ==
    { Para(<<Plain(<<"t">>)>>),
      ParaAnchor(<<"s", "1">>), ListAnchor(<<"s", "1">>), TableAnchor(<<"s", "1">>),
      ParaLink(<<"s", "1">>), ParaLink(<<"s", "2">>) }

\* One well-formed node of each type process_node is said to route, taskList
\* and taskItem included.
RoutedBlocks ==
    { [Node("heading", <<Plain(<<"h">>)>>) EXCEPT !.attrs.level = Some(2)],
      Node("table", <<Node("tableRow", <<Node("tableHeader", <<Para(<<Plain(<<"a", "|", "b">>)>>)>>)>>)>>),
      Node("tableRow", <<Node("tableCell", <<Para(<<Plain(<<"c">>)>>)>>)>>),
      Node("tableCell", <<Para(<<Plain(<<"c">>)>>)>>),
      Node("tableHeader", <<Para(<<Plain(<<"c">>)>>)>>),
      [Node("media", <<>>) EXCEPT !.attrs.id = Some(<<"m">>)],
      Node("mediaSingle", <<[Node("media", <<>>) EXCEPT !.attrs.id = Some(<<"m">>),
                                                        !.attrs.alt = Some(<<"a", "l", "t">>)]>>),
      Node("orderedList", <<Node("listItem", <<Para(<<Plain(<<"i">>)>>)>>)>>),
      Node("listItem", <<Para(<<Plain(<<"i">>)>>)>>),
      Node("taskList", <<Node("taskItem", <<Plain(<<"d", "o">>)>>)>>),
      Node("taskItem", <<Plain(<<"d", "o">>)>>),
      [Node("codeBlock", <<Plain(<<"x", "=", "1">>)>>) EXCEPT !.attrs.language = Some(<<"p", "y">>)],
      [Node("extension", <<>>) EXCEPT !.attrs.extensionKey = Some(<<"t", "o", "c">>)],
      AnchorMacro(<<"s", "1">>),
      [Node("mention", <<>>) EXCEPT !.attrs.id = Some(<<"7">>), !.attrs.text = Some(<<"@", "A", " ", "B">>)],
      [Node("inlineCard", <<>>) EXCEPT !.attrs.url = Some(<<"u">>)],
      Text(<<"b">>, <<Mark("strong")>>) }

\* Nodes of a type that is not routed: with no content, with no type, with
\* content of routed and unrouted types, around a bare table cell, and around a
\* paragraph whose link has a fragment.
UnroutedBlocks ==
    { Node("rule", <<>>),
      EmptyNode,
      Node(NoType, <<Para(<<Plain(<<"t">>)>>)>>),
      Node("doc", <<Para(<<Plain(<<"t">>)>>), Node("panel", <<Plain(<<"p">>), Plain(<<"q">>)>>)>>),
      Node("panel", <<ParaAnchor(<<"s", "1">>), ParaLink(<<"s", "1">>)>>),
      Node("panel", <<Node("tableCell", <<Para(<<Plain(<<"c">>)>>)>>)>>),
      Node("panel", <<Para(<<Text(<<"t">>, <<Link(<<"u", "#", "f">>)>>)>>)>>) }

Blocks == AnchorBlocks \cup RoutedBlocks \cup UnroutedBlocks

\* content["content"]: one block of any kind, or up to MaxBlocks anchor blocks.
RECURSIVE BlockSeqs(_)
BlockSeqs(n) ==
    IF n = 0 THEN {<<>>}
    ELSE {Append(d, b) : d \in BlockSeqs(n - 1), b \in AnchorBlocks}

Documents ==
    {<<b>> : b \in Blocks} \cup UNION {BlockSeqs(n) : n \in 2..MaxBlocks}

\* A node object that is not part of the document, stored in the skip flag.
DetachedNodes == {Para(<<Plain(<<"t">>)>>), Node("rule", <<>>)}

NoCall ==
    [index |-> 0, node |-> EmptyNode, before |-> ConvertContext, heapBefore |-> <<>>,
     out |-> <<>>, err |-> FALSE]

\* confluence_to_asciidoc.py 147-184, with the defaults of convert's parameters:
\* no title and no current_file_path, so result starts with the imagesdir line.
\* A caller of process_node may also pass a context that has an (empty) anchors
\* dict, as the tests do, and one that holds a node to skip: an object of the
\* document (skipObject is its position) or another object (skipObject = 0).
RenderInit ==
    /\ pc = "render"
    /\ document \in Documents
    /\ position = 1
    /\ result = <<<<":", "i", "m", "a", "g", "e", "s", "d", "i", "r", ":", " ">> \o ConvertContext.images_dir \o <<"\n", "\n">>>>
    /\ output = <<>>
    /\ lastCall = NoCall
    /\ \E withAnchors \in BOOLEAN :
          /\ dictHeap = IF withAnchors THEN << <<>> >> ELSE <<>>
          /\ \/ /\ skipObject = 0
                /\ \E flag \in {None} \cup {Some(n) : n \in DetachedNodes} :
                      context = [ConvertContext EXCEPT
                                    !.anchors = IF withAnchors THEN Some(1) ELSE None,
                                    !.next_node_to_skip = flag]
             \/ /\ skipObject \in 1..Len(document)
                /\ context = [ConvertContext EXCEPT
                                 !.anchors = IF withAnchors THEN Some(1) ELSE None,
                                 !.next_node_to_skip = Some(document[skipObject])]
    /\ IdIdle
    /\ ClampIdle
    /\ CallIdle
    /\ ScriptIdle

\* confluence_to_asciidoc.py 186-187: result.extend(process_node(node, context)).
\* An exception leaves convert; the context keeps what was assigned before it.
\* The assignments of one pass of the loop whose call process_node(node,
\* context) ended as r.
ExtendResult(r) ==
    /\ lastCall' = [index |-> position, node |-> document[position],
                    before |-> context, heapBefore |-> dictHeap,
                    out |-> r.out, err |-> r.err]
    /\ context' = r.ctx
    /\ dictHeap' = r.heap
    /\ result' = IF r.err THEN result ELSE result \o r.out
    /\ pc' = IF r.err THEN "raised" ELSE "render"

RenderNode ==
    /\ pc = "render"
    /\ position <= Len(document)
    /\ ExtendResult(ProcessNode(document[position], context, dictHeap, <<>>))
    /\ position' = position + 1
    /\ UNCHANGED <<document, output, skipObject>>
    /\ UNCHANGED <<idVars, clampVars, callVars, scriptVars>>

\* confluence_to_asciidoc.py 189: return "".join(result).
JoinResult ==
    /\ pc = "render"
    /\ position > Len(document)
    /\ output' = Flatten(result)
    /\ pc' = "done"
    /\ UNCHANGED <<document, context, dictHeap, result, position, skipObject, lastCall>>
    /\ UNCHANGED <<idVars, clampVars, callVars, scriptVars>>

RenderNext == RenderNode \/ JoinResult

SpecRender == RenderInit /\ [][RenderNext]_vars

(***************************************************************************)
(* Claims about process_node and the anchors registry.  lastCall is the    *)
(* last top-level call process_node(lastCall.node, context) made by        *)
(* convert, with the context and dict heap it was given.                   *)
(***************************************************************************)
Called == pc \in {"render", "raised", "done"} /\ lastCall # <<>> /\ lastCall.index > 0

\* The routing table as documented: the routed types, taskList and taskItem.
DocumentedRoutingTable == RoutedTypes \cup {"taskList", "taskItem"}

\* The concatenation, in order, of process_node over each child with the same
\* context.
RECURSIVE ConcatOverChildren(_, _, _)
ConcatOverChildren(cs, ctx, heap) ==
    IF cs = <<>> THEN <<>>
    ELSE Bind(ProcessNode(Head(cs), ctx, heap, <<>>), LAMBDA r :
            r.out \o ConcatOverChildren(Tail(cs), r.ctx, r.heap))

\* C6: process_node never raises on a node whose type is not in the routing
\* table (a node with no type included); such a node with no content yields
\* the empty list, and otherwise the concatenation, in order, of process_node
\* over each child with the same context.  (Calls made with no skip flag set.)
C6_UnroutedNeverRaises ==
    (/\ Called
     /\ lastCall.node.type \notin DocumentedRoutingTable
     /\ lastCall.before.next_node_to_skip = None)
    => /\ ~lastCall.err
       /\ lastCall.out = ConcatOverChildren(lastCall.node.content, lastCall.before,
                                            lastCall.heapBefore)

\* C7: for every well-formed node whose type is in the routing table,
\* process_node delegates to that type's renderer and returns its fragments
\* without raising; a tableCell or tableHeader node yields the cell's text as
\* the single fragment.  (Calls made with no skip flag set.)
C7_RoutedNeverRaises ==
    (/\ Called
     /\ lastCall.node.type \in DocumentedRoutingTable
     /\ lastCall.before.next_node_to_skip = None)
    => /\ ~lastCall.err
       /\ lastCall.node.type \in {"tableCell", "tableHeader"}
            => lastCall.out = <<ProcessTableCellNode(lastCall.node, lastCall.before,
                                                     lastCall.heapBefore).text>>

\* C8: with next_node_to_skip set, process_node returns the empty list and
\* clears the flag exactly when the node rendered is the very object stored in
\* the flag; a distinct node with equal contents is rendered normally and
\* leaves the flag set.
C8_SkipsOnlyTheVeryObject ==
    (/\ Called
     /\ Has(lastCall.before.next_node_to_skip)
     /\ ~lastCall.err)
    => ((lastCall.out = <<>> /\ context.next_node_to_skip = None)
            <=> skipObject = lastCall.index)

\* The ids of the anchor macros in a node.
RECURSIVE AnchorIds(_)
AnchorIds(node) ==
    (IF node.type = "inlineExtension" /\ Has(node.attrs.anchorId)
     THEN {node.attrs.anchorId[1]} ELSE {})
    \cup UNION {AnchorIds(node.content[i]) : i \in DOMAIN node.content}

\* The ids of the anchor macros rendered by the first k top-level calls.
RenderedAnchors(k) == UNION {AnchorIds(document[j]) : j \in 1..k}

AnchorNames == {<<"s", "1">>, <<"s", "2">>}

\* The cross-reference form of a link to the anchor id.
XrefTo(id) == <<"<", "<">> \o id \o <<",">>

\* C9: a link to #id resolves to a cross-reference if and only if the anchor
\* macro for id was rendered earlier in the same conversion, wherever that
\* macro sat: in a top-level paragraph, in a list item or in a table cell.
\* (Conversions in which no node of the document is flagged to be skipped.)
C9_LinkResolvesIffRenderedEarlier ==
    \A id \in AnchorNames :
        (/\ Called
         /\ skipObject = 0
         /\ lastCall.node = ParaLink(id)
         /\ ~lastCall.err)
        => (Contains(Flatten(lastCall.out), XrefTo(id))
                <=> id \in RenderedAnchors(lastCall.index - 1))

\* C10: after a table cell is rendered, the outer context's in_table_cell is
\* what it was before the call, and every anchor id registered inside the cell
\* is in the outer context's anchors registry, also when the outer context had
\* no anchors entry.
C10_CellAnchorsReachOuter ==
    (/\ Called
     /\ skipObject = 0
     /\ lastCall.node.type = "table"
     /\ ~lastCall.err)
    => /\ context.in_table_cell = lastCall.before.in_table_cell
       /\ \A id \in AnchorIds(lastCall.node) : AnchorKnown(context, dictHeap, id)

(***************************************************************************)
(* PART D.  The renderer functions of adf_resources.py called one at a     *)
(* time: argNode and argContext are the arguments, returned is the result. *)
(***************************************************************************)

\* --- process_list_node on nested lists ------------------------------------
MaxListDepth == 3

ListTypes == {"bulletList", "orderedList"}

PlainItem == Node("listItem", <<Para(<<Plain(<<"x">>)>>)>>)

\* The list items over the given nested lists: a paragraph, a paragraph
\* followed by a nested list, and a nested list at the start of the item.
ItemsOf(lists) ==
    {PlainItem}
    \cup {Node("listItem", <<Para(<<Plain(<<"x">>)>>), l>>) : l \in lists}
    \cup {Node("listItem", <<l>>) : l \in lists}

\* The lists of either kind nested at most n deep, of one or two items.
RECURSIVE ListsOf(_)
ListsOf(n) ==
    IF n = 0 THEN {}
    ELSE Bind(ItemsOf(ListsOf(n - 1)), LAMBDA items :
            {Node(k, <<it>>) : k \in ListTypes, it \in items}
            \cup {Node(k, <<it, PlainItem>>) : k \in ListTypes, it \in items})

\* The contexts a list is rendered with: convert's, that of a table cell, and
\* the item_context of an item of an enclosing ordered list.
ListContexts ==
    { ConvertContext,
      CellContext(ConvertContext),
      ItemContext([ConvertContext EXCEPT !.list_depth = Some(1),
                                         !.in_bullet_list = Some(FALSE)]) }

\* adf_resources.py 187, 199 and 641-665: the values process_list_node stores
\* in list_depth, in call order, for a context whose list_depth is d.  The
\* nested lists of one item share the item_context; every item starts from a
\* copy of the list's context.
RECURSIVE ListLog(_, _), ItemLog(_, _), ItemsLog(_, _)
ListLog(node, d) == <<d + 1>> \o ItemsLog(node.content, d + 1) \o <<(d + 1) - 1>>

ItemsLog(items, d) ==
    IF items = <<>> THEN <<>>
    ELSE (IF Head(items).type = "listItem" THEN ItemLog(Head(items).content, d) ELSE <<>>)
         \o ItemsLog(Tail(items), d)

ItemLog(children, d) ==
    IF children = <<>> THEN <<>>
    ELSE IF Head(children).type \in ListTypes
    THEN Bind(ListLog(Head(children), d), LAMBDA log :
            log \o ItemLog(Tail(children), log[Len(log)]))
    ELSE ItemLog(Tail(children), d)

ListInit ==
    /\ pc = "list"
    /\ argNode \in ListsOf(MaxListDepth)
    /\ argContext \in ListContexts
    /\ argHeap = <<>>
    /\ returned = <<>>
    /\ IdIdle
    /\ ScriptIdle
    /\ ClampIdle
    /\ RenderIdle

\* process_list_node(argNode, argContext); depths is a ghost.
CallProcessListNode ==
    /\ pc = "list"
    /\ returned' = [fn |-> "process_list_node",
                    r |-> ProcessListNode(argNode, argContext, argHeap, <<>>),
                    depths |-> ListLog(argNode, Get(argContext.list_depth, 0))]
    /\ pc' = "done"
    /\ UNCHANGED <<argNode, argContext, argHeap>>
    /\ UNCHANGED <<idVars, clampVars, renderVars, scriptVars>>

ListNext == CallProcessListNode

SpecList == ListInit /\ [][ListNext]_vars

ListReturned == pc = "done" /\ returned.fn = "process_list_node" /\ ~returned.r.err

\* C11: after process_list_node returns, the context's list_depth is what it
\* was before the call, no value stored in list_depth during the call is
\* negative, and a context whose list_depth is back to 0 has no in_bullet_list.
C11_ListDepthBalanced ==
    ListReturned =>
        /\ returned.r.ctx.list_depth = argContext.list_depth
        /\ \A i \in DOMAIN returned.depths : returned.depths[i] >= 0
        /\ Some(returned.depths[Len(returned.depths)]) = returned.r.ctx.list_depth
        /\ (returned.r.ctx.list_depth = Some(0) => returned.r.ctx.in_bullet_list = None)
        /\ (returned.r.ctx.list_depth # Some(0) =>
                returned.r.ctx.in_bullet_list = Some(argNode.type = "bulletList"))

\* A list three deep has returned to a context at depth 0.
C11_Witness ==
    /\ ListReturned
    /\ argContext.list_depth = Some(0)
    /\ \E i \in DOMAIN returned.depths : returned.depths[i] = 3
    /\ returned.r.ctx.in_bullet_list = None

\* --- the markers of the rendered items --------------------------------------
\* The marker a line starts with, after its indentation, with the character
\* that follows it; <<>> for a line that starts with no marker.
LineMarker(line) ==
    Bind(LStrip(line, {" "}), LAMBDA l :
    Bind(TakeWhile(l, {"*", "."}), LAMBDA m :
        IF m = <<>> THEN <<>>
        ELSE IF Len(l) > Len(m) THEN m \o <<l[Len(m) + 1]>> ELSE m))

RECURSIVE MarkersOfLines(_)
MarkersOfLines(lines) ==
    IF lines = <<>> THEN <<>>
    ELSE (IF LineMarker(Head(lines)) = <<>> THEN <<>> ELSE <<LineMarker(Head(lines))>>)
         \o MarkersOfLines(Tail(lines))

RenderedMarkers(text) == MarkersOfLines(Split(text, "\n"))

\* The markers as documented, in document order: d repetitions of the
\* character of the item's own list, d counting the lists around the item;
\* a blank follows when the item starts with a paragraph.
RECURSIVE DocumentedMarkers(_, _), DocumentedItemMarkers(_, _, _), DocumentedNested(_, _)
DocumentedMarkers(list, d) ==
    DocumentedItemMarkers(list.content, IF list.type = "bulletList" THEN <<"*">> ELSE <<".">>, d)

DocumentedItemMarkers(items, char, d) ==
    IF items = <<>> THEN <<>>
    ELSE << Repeat(char, d)
            \o (IF Head(items).content[1].type = "paragraph" THEN <<" ">> ELSE <<>>) >>
         \o DocumentedNested(Head(items).content, d)
         \o DocumentedItemMarkers(Tail(items), char, d)

DocumentedNested(children, d) ==
    IF children = <<>> THEN <<>>
    ELSE (IF Head(children).type \in ListTypes
          THEN DocumentedMarkers(Head(children), d + 1) ELSE <<>>)
         \o DocumentedNested(Tail(children), d)

\* C12: every item of a rendered list starts with as many repetitions of its
\* own list's character ('*' bulleted, '.' ordered) as there are lists around
\* it, its own included, whatever the kinds of the enclosing lists.
C12_MarkerIsDepthRepetitions ==
    ListReturned =>
        RenderedMarkers(Flatten(returned.r.out))
            = DocumentedMarkers(argNode, Get(argContext.list_depth, 0) + 1)

\* An ordered list nested in a bulleted item of a top-level list was rendered
\* with "* " and ".. ", and a bulleted list nested in that with "*** ".
C12_Witness ==
    /\ ListReturned
    /\ argContext.list_depth = Some(0)
    /\ argNode.type = "bulletList"
    /\ Bind(RenderedMarkers(Flatten(returned.r.out)), LAMBDA ms :
            /\ ms[1] = <<"*", " ">>
            /\ \E i \in DOMAIN ms : ms[i] = <<".", ".", " ">>
            /\ \E i \in DOMAIN ms : ms[i] = <<"*", "*", "*", " ">>)


\* --- get_node_text_content and process_text_node on one text node ----------
MaxMarks == 2

Texts == { <<"t">>, <<"b", " ">>, <<"*", "t", "*">> }

Subsup(kind) == [type |-> "subsup", href |-> <<>>, sub |-> kind]

\* The marks that are not links; textColor is a type neither function names.
WrapMarks ==
    { Mark("strong"), Mark("em"), Mark("code"), Mark("strike"), Mark("underline"),
      Subsup("sub"), Subsup("sup"), Mark("textColor") }

SiteUrl == <<"h", "t", "t", "p", "s", ":", "/", "/", "c", ".", "i", "o">>

\* The hrefs of link marks: same-page anchors, a generic external link,
\* issue-tracker links, and links into the site with a fragment.
Hrefs ==
    { <<"#", "s", "1">>, <<"#", "s", "2">>,
      <<"h", "t", "t", "p", "s", ":", "/", "/", "e", ".", "c", "o", "m", "/", "p">>,
      JiraBaseUrl \o <<"/", "b", "r", "o", "w", "s", "e", "/", "A", "B", "-", "1">>,
      JiraBaseUrl \o <<"/", "x">>,
      <<"h", "t", "t", "p", "s", ":", "/", "/", "e", ".", "c", "o", "m", "/", "b", "r", "o", "w", "s", "e", "/", "A", "B", "-", "1">>,
      JiraBaseUrl \o <<"/", "b", "r", "o", "w", "s", "e", "/", "A", "B", "-", "1", "#", "c">>,
      SiteUrl \o <<"/", "p", "a", "g", "e", "s", "/", "1", "2", "#", "f">>,
      SiteUrl \o <<"/", "p", "a", "g", "e", "s", "/", "1", "2", "#", "f", "#", "g">>,
      SiteUrl \o <<"/", "p", "a", "g", "e", "s", "/", "1", "4", "#", "f">> }

\* The lists of at most n marks without repetition that hold at most one link.
RECURSIVE MarkLists(_)
MarkLists(n) ==
    IF n = 0 THEN {<<>>}
    ELSE Bind(MarkLists(n - 1), LAMBDA shorter :
            shorter
            \cup {Append(ms, m) : ms \in {x \in shorter : Len(x) = n - 1},
                                  m \in WrapMarks \cup {Link(h) : h \in Hrefs}})

WellFormedMarks(ms) ==
    /\ \A i, j \in DOMAIN ms : i # j => ms[i] # ms[j]
    /\ Cardinality({i \in DOMAIN ms : ms[i].type = "link"}) <= 1

\* A context of a page of a site: base_url, a page_mapping with page 12 and
\* the file being written; the anchor s1 was rendered earlier (dict 1).
SiteContext ==
    [ConvertContext EXCEPT
        !.anchors = Some(1),
        !.base_url = Some(SiteUrl),
        !.page_mapping = [id \in {<<"1", "2">>} |->
                             [title |-> <<"T">>, path |-> Some(<<"/", "w", "/", "o", "u", "t", "/", "s", "u", "b", "/", "b", ".", "a", "d", "o", "c">>)]],
        !.current_file_path = Some(<<"/", "w", "/", "o", "u", "t", "/", "a", ".", "a", "d", "o", "c">>)]

SiteHeap == HeapPut(<< <<>> >>, 1, <<"s", "1">>, TRUE)

TextInit ==
    /\ pc = "text"
    /\ \E s \in Texts, ms \in {x \in MarkLists(MaxMarks) : WellFormedMarks(x)} :
            argNode = Text(s, ms)
    /\ \/ argContext = ConvertContext /\ argHeap = <<>>
       \/ argContext = SiteContext /\ argHeap = SiteHeap
    /\ returned = <<>>
    /\ IdIdle
    /\ ScriptIdle
    /\ ClampIdle
    /\ RenderIdle

\* get_node_text_content(argNode, argContext)
CallGetNodeTextContent ==
    /\ pc = "text"
    /\ returned' = [fn |-> "get_node_text_content",
                    r |-> GetNodeTextContent(argNode, argContext, argHeap)]
    /\ pc' = "done"
    /\ UNCHANGED <<argNode, argContext, argHeap>>
    /\ UNCHANGED <<idVars, clampVars, renderVars, scriptVars>>

\* process_text_node(argNode, argContext)
CallProcessTextNode ==
    /\ pc = "text"
    /\ returned' = [fn |-> "process_text_node",
                    r |-> ProcessTextNode(argNode, argContext)]
    /\ pc' = "done"
    /\ UNCHANGED <<argNode, argContext, argHeap>>
    /\ UNCHANGED <<idVars, clampVars, renderVars, scriptVars>>

TextNext == CallGetNodeTextContent \/ CallProcessTextNode

SpecText == TextInit /\ [][TextNext]_vars

TextContentReturned == pc = "done" /\ returned.fn = "get_node_text_content"

LinkMarks(ms) == {i \in DOMAIN ms : ms[i].type = "link"}

\* The documented syntax table.
DocumentedWrap(text, mark) ==
    IF mark.type = "strong" THEN <<"*">> \o text \o <<"*">>
    ELSE IF mark.type = "em" THEN <<"_">> \o text \o <<"_">>
    ELSE IF mark.type = "code" THEN <<Backtick>> \o text \o <<Backtick>>
    ELSE IF mark.type = "strike" THEN <<"[", ".", "l", "i", "n", "e", "-", "t", "h", "r", "o", "u", "g", "h", "]", "#">> \o text \o <<"#">>
    ELSE IF mark.type = "underline" THEN <<"[", ".", "u", "n", "d", "e", "r", "l", "i", "n", "e", "]", "#">> \o text \o <<"#">>
    ELSE IF mark.type = "subsup" /\ mark.sub = "sub" THEN <<"~">> \o text \o <<"~">>
    ELSE IF mark.type = "subsup" /\ mark.sub = "sup" THEN <<"^">> \o text \o <<"^">>
    ELSE text

RECURSIVE DocumentedFold(_, _)
DocumentedFold(text, ms) ==
    IF ms = <<>> THEN text ELSE DocumentedFold(DocumentedWrap(text, Head(ms)), Tail(ms))

\* C13: get_node_text_content on a text node without a link mark returns the
\* text wrapped once per mark, in the order of the list, by the documented
\* table (underline included); an unknown mark type changes nothing.
C13_WrapsByDocumentedTable ==
    (TextContentReturned /\ LinkMarks(argNode.marks) = {}) =>
        /\ ~returned.r.err
        /\ returned.r.s = DocumentedFold(argNode.text, argNode.marks)

\* The list of marks with the mark at position i moved to the end.
MoveLast(ms, i) == SubSeq(ms, 1, i - 1) \o SubSeq(ms, i + 1, Len(ms)) \o <<ms[i]>>

\* C14: wherever the link mark stands in the list of marks, the text node
\* renders as it does with the same marks and the link mark listed last,
\* whatever the class of the link.
C14_LinkAppliedLast ==
    TextContentReturned =>
        \A i \in LinkMarks(argNode.marks) :
            returned.r = GetNodeTextContent(Text(argNode.text, MoveLast(argNode.marks, i)),
                                            argContext, argHeap)

\* The whitespace a text ends with.
TrailingWhitespace(text) == SubSeq(text, Len(RStrip(text, Whitespace)) + 1, Len(text))

\* C15: a text node with one wrapping mark renders as the wrapper around the
\* text without its trailing whitespace, followed by that whitespace
\* ("b " with strong gives "*b* ").
C15_TrailingWhitespaceOutside ==
    (/\ TextContentReturned
     /\ Len(argNode.marks) = 1
     /\ argNode.marks[1] \in WrapMarks \ {Mark("underline"), Mark("textColor")}) =>
        returned.r.s = DocumentedWrap(RStrip(argNode.text, Whitespace), argNode.marks[1])
                           \o TrailingWhitespace(argNode.text)

GenericHref == <<"h", "t", "t", "p", "s", ":", "/", "/", "e", ".", "c", "o", "m", "/", "p">>

\* The list of marks without the mark at position i.
WithoutMark(ms, i) == SubSeq(ms, 1, i - 1) \o SubSeq(ms, i + 1, Len(ms))

LinkMacro(href, text) == <<"l", "i", "n", "k", ":">> \o href \o <<"[">> \o text \o <<"]">>

\* C16: with a generic external link, a text whose only other mark is strong
\* (or em) renders as *link:href[T]* (or _link:href[T]_) with T the whole raw
\* text, also when T starts or ends with '*' or '_'; a text with no strong or
\* em mark renders as link:href[text] around the text as its other marks
\* wrapped it.
C16_GenericLinkNesting ==
    TextContentReturned =>
        \A i \in LinkMarks(argNode.marks) :
            argNode.marks[i].href = GenericHref =>
                LET others == WithoutMark(argNode.marks, i) IN
                IF others = <<Mark("strong")>>
                THEN returned.r.s = <<"*">> \o LinkMacro(GenericHref, argNode.text) \o <<"*">>
                ELSE IF others = <<Mark("em")>>
                THEN returned.r.s = <<"_">> \o LinkMacro(GenericHref, argNode.text) \o <<"_">>
                ELSE returned.r.s = LinkMacro(GenericHref, DocumentedFold(argNode.text, others))

\* Either of the two functions that render a text node has returned.
TextRendered ==
    pc = "done" /\ returned.fn \in {"get_node_text_content", "process_text_node"}

\* The text node has the link to href as its only mark.
OnlyLink(href) == argNode.marks = <<Link(href)>>

\* The hrefs that are neither same-page anchors nor links into the site.
OutsideHrefs == {h \in Hrefs : ~StartsWith(h, <<"#">>) /\ ~Contains(h, SiteUrl)}

\* C17: a link whose href contains the issue-tracker base URL and has a
\* /browse/KEY part renders exactly jira:KEY[]; a link whose href lacks the
\* base URL or the key renders as link:href[text].
C17_IssueLinkOrGenericLink ==
    TextRendered =>
        \A h \in OutsideHrefs :
            OnlyLink(h) =>
                /\ ~returned.r.err
                /\ returned.r.s =
                      IF Contains(h, JiraBaseUrl) /\ Has(SearchIssueKey(h))
                      THEN <<"j", "i", "r", "a", ":">> \o SearchIssueKey(h)[1] \o <<"[", "]">>
                      ELSE LinkMacro(h, argNode.text)

\* The hrefs into the site that have a '#' after the first position.
CrossPageHrefs == {h \in Hrefs : Find(h, <<"#">>) > 1 /\ Contains(SubSeq(h, 1, Find(h, <<"#">>) - 1), SiteUrl)}

\* The documented rendering of a cross-page anchor link: pre is the href up
\* to its first '#', fragment all that follows it.
DocumentedCrossPage(h, pre, fragment, text, ctx) ==
    Bind(ExtractPageIdFromUrl(pre), LAMBDA page_id :
        IF Has(page_id) /\ page_id[1] \in DOMAIN ctx.page_mapping
              /\ Has(ctx.page_mapping[page_id[1]].path)
        THEN <<"x", "r", "e", "f", ":">> \o RelPath(ctx.page_mapping[page_id[1]].path[1],
                                   DirName(ctx.current_file_path[1]))
                 \o <<"#">> \o fragment \o <<"[">> \o text \o <<"]">>
        ELSE LinkMacro(h, text))

\* C18: a link into the site with a fragment renders as xref:R#F[text] when
\* the page id of the part before the first '#' is mapped to a path, R being
\* the path relative to the directory of the current file and F all that
\* follows the first '#'; otherwise as link:href[text] with the whole href.
C18_CrossPageSplitOnFirstHash ==
    (TextContentReturned /\ argContext = SiteContext) =>
        \A h \in CrossPageHrefs :
            OnlyLink(h) =>
                /\ ~returned.r.err
                /\ returned.r.s =
                      DocumentedCrossPage(h, SubSeq(h, 1, Find(h, <<"#">>) - 1),
                                          SubSeq(h, Find(h, <<"#">>) + 1, Len(h)),
                                          argNode.text, argContext)

\* C19: rendering a text node that has a link mark never raises, and with no
\* base_url in the context a link whose href has a '#' after the first
\* position renders as link:href[text].
C19_LinkNeverRaises ==
    (TextRendered /\ LinkMarks(argNode.marks) # {}) =>
        /\ ~returned.r.err
        /\ \A h \in Hrefs :
              (/\ returned.fn = "get_node_text_content"
               /\ OnlyLink(h)
               /\ Find(h, <<"#">>) > 1
               /\ argContext.base_url = None) =>
                  returned.r.s = LinkMacro(h, argNode.text)


\* --- process_table_row_node on one row ---------------------------------------
MaxCells == 2

Cell(cs) == Node("tableCell", cs)

\* Cells with one paragraph, a pipe in the text, two paragraphs, each of the
\* block children a cell can hold, a list after a paragraph, no content, and a
\* header cell.
Cells ==
    { Cell(<<Para(<<Plain(<<"c">>)>>)>>),
      Cell(<<Para(<<Plain(<<"a", "|", "b">>)>>)>>),
      Cell(<<Para(<<Plain(<<"p">>)>>), Para(<<Plain(<<"q">>)>>)>>),
      Cell(<<Node("bulletList", <<PlainItem>>)>>),
      Cell(<<Node("orderedList", <<PlainItem>>)>>),
      Cell(<<Node("codeBlock", <<Plain(<<"x">>)>>)>>),
      Cell(<<Node("panel", <<Para(<<Plain(<<"n">>)>>)>>)>>),
      Cell(<<Para(<<Plain(<<"p">>)>>), Node("bulletList", <<PlainItem>>)>>),
      Cell(<<>>),
      Node("tableHeader", <<Para(<<Plain(<<"h">>)>>)>>) }

RECURSIVE CellSeqs(_)
CellSeqs(n) ==
    IF n = 0 THEN {<<>>}
    ELSE {<<c>> \o cs : c \in Cells, cs \in CellSeqs(n - 1)}

Rows == {Node("tableRow", cs) : cs \in UNION {CellSeqs(n) : n \in 1..MaxCells}}

RowInit ==
    /\ pc = "row"
    /\ argNode \in Rows
    /\ argContext \in ListContexts
    /\ argHeap = <<>>
    /\ returned = <<>>
    /\ IdIdle
    /\ ScriptIdle
    /\ ClampIdle
    /\ RenderIdle

\* process_table_row_node(argNode, argContext)
CallProcessTableRowNode ==
    /\ pc = "row"
    /\ returned' = [fn |-> "process_table_row_node",
                    r |-> ProcessTableRowNode(argNode, argContext, argHeap)]
    /\ pc' = "done"
    /\ UNCHANGED <<argNode, argContext, argHeap>>
    /\ UNCHANGED <<idVars, clampVars, renderVars, scriptVars>>

RowNext == CallProcessTableRowNode

SpecRow == RowInit /\ [][RowNext]_vars

RowReturned == pc = "done" /\ returned.fn = "process_table_row_node"

\* The documented classification of a cell whose rendered text is text.
DocumentedComplex(cell, text) ==
    \/ \E i \in DOMAIN cell.content :
          cell.content[i].type \in {"bulletList", "orderedList", "codeBlock", "panel"}
    \/ Contains(text, <<"\n">>)

\* The documented form of one cell of a row.
DocumentedCell(cell, text) ==
    (IF DocumentedComplex(cell, text) THEN <<"a", "|", " ">> ELSE <<"|", " ">>) \o text

\* C20: a row renders as its cells in document order joined by one blank and
\* ended by a newline, each cell being "a| " and its text when it has a
\* bulletList, orderedList, codeBlock or panel child or its text holds a
\* newline, and "| " and its text otherwise.
C20_RowOfClassifiedCells ==
    RowReturned =>
        /\ ~returned.r.err
        /\ returned.r.s =
              Join(<<" ">>, [i \in DOMAIN argNode.content |->
                              DocumentedCell(argNode.content[i],
                                  ProcessTableCellNode(argNode.content[i],
                                                       argContext, argHeap).text)])
                  \o <<"\n">>

\* A row of a cell with a panel (complex by its child, no newline in its text)
\* and a cell with an escaped pipe (not complex) was rendered.
C20_Witness ==
    /\ RowReturned
    /\ argNode.content = << Cell(<<Node("panel", <<Para(<<Plain(<<"n">>)>>)>>)>>),
                            Cell(<<Para(<<Plain(<<"a", "|", "b">>)>>)>>) >>
    /\ returned.r.s = <<"a", "|", " ", "n", " ", "|", " ", "a", "\\", "|", "b", "\n">>


\* --- process_table_cell_node on one cell, and the row that holds it ----------
MaxInline == 2

\* Raw texts: without a pipe, with one, a pipe alone, and a pipe after a
\* backslash of the source text.
CellTexts == { <<"x">>, <<"a", "|", "b">>, <<"|">>, <<"a", "\\", "|", "b">> }

RECURSIVE InlineSeqs(_)
InlineSeqs(n) ==
    IF n = 0 THEN {<<>>}
    ELSE {<<Plain(t)>> \o ts : t \in CellTexts, ts \in InlineSeqs(n - 1)}

InlineContents == UNION {InlineSeqs(n) : n \in 1..MaxInline}

\* The content of a cell: text in a paragraph, text as direct children, a
\* linked text in a paragraph.
CellContents ==
    {<<Para(ts)>> : ts \in InlineContents}
    \cup InlineContents
    \cup {<<Para(<<Text(t, <<Link(GenericHref)>>)>>)>> : t \in CellTexts}

\* attrs.colspan and attrs.rowspan of a cell: absent, 1, or more.
Spans == {<<None, None>>, <<Some(1), Some(1)>>, <<Some(2), None>>, <<None, Some(2)>>,
          <<Some(2), Some(3)>>}

SpanCell(cs, span) ==
    [Cell(cs) EXCEPT !.attrs.colspan = span[1], !.attrs.rowspan = span[2]]

CellInit ==
    /\ pc = "cell"
    /\ \E cs \in CellContents, span \in Spans :
            argNode = Node("tableRow", <<SpanCell(cs, span)>>)
    /\ argContext \in {ConvertContext, CellContext(ConvertContext)}
    /\ argHeap = <<>>
    /\ returned = <<>>
    /\ IdIdle
    /\ ScriptIdle
    /\ ClampIdle
    /\ RenderIdle

\* process_table_cell_node(cell, argContext) for the cell of the row
CallProcessTableCellNode ==
    /\ pc = "cell"
    /\ returned' = [fn |-> "process_table_cell_node",
                    r |-> ProcessTableCellNode(argNode.content[1], argContext, argHeap)]
    /\ pc' = "done"
    /\ UNCHANGED <<argNode, argContext, argHeap>>
    /\ UNCHANGED <<idVars, clampVars, renderVars, scriptVars>>

\* process_table_row_node(argNode, argContext) for the row of one cell
CallRowOfCell ==
    /\ pc = "cell"
    /\ returned' = [fn |-> "process_table_row_node",
                    r |-> ProcessTableRowNode(argNode, argContext, argHeap)]
    /\ pc' = "done"
    /\ UNCHANGED <<argNode, argContext, argHeap>>
    /\ UNCHANGED <<idVars, clampVars, renderVars, scriptVars>>

CellNext == CallProcessTableCellNode \/ CallRowOfCell

SpecCell == CellInit /\ [][CellNext]_vars

CellReturned == pc = "done" /\ returned.fn = "process_table_cell_node"

\* The rendering of inline nodes with no escaping: a text, or link:href[text].
RECURSIVE UnescapedInline(_)
UnescapedInline(ts) ==
    IF ts = <<>> THEN <<>>
    ELSE (IF Head(ts).marks = <<>> THEN Head(ts).text
          ELSE LinkMacro(GenericHref, Head(ts).text))
         \o UnescapedInline(Tail(ts))

\* The rendering of the content of a cell with no escaping.
UnescapedCell(cs) ==
    IF cs[1].type = "paragraph" THEN UnescapedInline(cs[1].content) ELSE UnescapedInline(cs)

\* C21: the text of a cell that is not complex is its rendering without
\* escaping in which every '|' is replaced by "\|" once, for text in a
\* paragraph, in a link or directly in the cell, backslashes of the source
\* text being kept.
C21_PipeEscapedOnce ==
    (CellReturned /\ ~returned.r.complex) =>
        /\ ~returned.r.err
        /\ returned.r.text
              = ReplaceChar(UnescapedCell(argNode.content[1].content), "|", <<"\\", "|">>)

\* The decimal digit of a small number.
Digit(n) == <<SubSeq(<<"0", "1", "2", "3", "4", "5", "6", "7", "8", "9">>, n + 1, n + 1)[1]>>

\* The documented span marker of a cell: N+ for colspan N > 1, .M+ for
\* rowspan M > 1, both as N.M+, nothing otherwise.
DocumentedSpanMarker(cell) ==
    Bind(Get(cell.attrs.colspan, 1), LAMBDA n :
    Bind(Get(cell.attrs.rowspan, 1), LAMBDA m :
        IF n > 1 /\ m > 1 THEN Digit(n) \o <<".">> \o Digit(m) \o <<"+">>
        ELSE IF n > 1 THEN Digit(n) \o <<"+">>
        ELSE IF m > 1 THEN <<".">> \o Digit(m) \o <<"+">>
        ELSE <<>>))

\* C22: in a rendered row a cell with colspan N > 1 and/or rowspan M > 1 has
\* its span marker immediately before its pipe prefix, and a cell without
\* such attributes has none.
C22_SpanMarkerBeforePipe ==
    (pc = "done" /\ returned.fn = "process_table_row_node" /\ Len(argNode.content) = 1) =>
        /\ ~returned.r.err
        /\ Bind(ProcessTableCellNode(argNode.content[1], argContext, argHeap), LAMBDA c :
              returned.r.s = DocumentedSpanMarker(argNode.content[1])
                                \o (IF c.complex THEN <<"a", "|", " ">> ELSE <<"|", " ">>) \o c.text
                                \o <<"\n">>)


\* --- process_media_node on one media node -------------------------------------
MediaIds == { <<"m", "1">>, <<"u", "2">>, <<"m", "3">> }

\* attrs.alt: absent, empty, the names files resolve to, and a caption.
AltTexts == { None, Some(<<>>), Some(<<"p", "i", "c", ".", "p", "n", "g">>), Some(<<"a", ".", "p", "n", "g">>), Some(<<"c", "a", "p">>) }

\* context["file_id_to_filename"]: nothing, or m1 with and without extension.
FileIdMaps ==
    { <<>>, [id \in {<<"m", "1">>} |-> <<"p", "i", "c", ".", "p", "n", "g">>], [id \in {<<"m", "1">>} |-> <<"p", "i", "c">>] }

\* context["media_files"]: nothing, or a descriptor of u2.
MediaFileLists ==
    { <<>>,
      << [id |-> Some(<<"u", "2">>), title |-> Some(<<"a", ".", "p", "n", "g">>)] >>,
      << [id |-> Some(<<"u", "2">>), title |-> Some(<<"a">>)] >> }

MediaInit ==
    /\ pc = "media"
    /\ \E id \in MediaIds, alt \in AltTexts :
            argNode = [Node("media", <<>>) EXCEPT !.attrs.id = Some(id), !.attrs.alt = alt]
    /\ \E m \in FileIdMaps, fs \in MediaFileLists :
            argContext = [ConvertContext EXCEPT !.file_id_to_filename = m, !.media_files = fs]
    /\ argHeap = <<>>
    /\ returned = <<>>
    /\ IdIdle
    /\ ScriptIdle
    /\ ClampIdle
    /\ RenderIdle

\* process_media_node(argNode, argContext)
CallProcessMediaNode ==
    /\ pc = "media"
    /\ returned' = [fn |-> "process_media_node", r |-> ProcessMediaNode(argNode, argContext)]
    /\ pc' = "done"
    /\ UNCHANGED <<argNode, argContext, argHeap>>
    /\ UNCHANGED <<idVars, clampVars, renderVars, scriptVars>>

MediaNext == CallProcessMediaNode

SpecMedia == MediaInit /\ [][MediaNext]_vars

MediaReturned == pc = "done" /\ returned.fn = "process_media_node"

\* The documented name of the image with this id: the mapped name, else the
\* title of the media file with the id, else the id; ".png" is added to a
\* name without '.'.
DocumentedFilename(id, ctx) ==
    Bind(IF id \in DOMAIN ctx.file_id_to_filename THEN ctx.file_id_to_filename[id]
         ELSE IF \E i \in DOMAIN ctx.media_files : ctx.media_files[i].id = Some(id)
         THEN ctx.media_files[CHOOSE i \in DOMAIN ctx.media_files :
                                 ctx.media_files[i].id = Some(id)].title[1]
         ELSE id, LAMBDA name :
        IF Contains(name, <<".">>) THEN name ELSE name \o <<".", "p", "n", "g">>)

\* C23: process_media_node returns the directive image::filename[] of the
\* resolved file name, preceded by the caption line .alt exactly when alt is
\* present, not empty and not that file name.
C23_CaptionIffAltDiffers ==
    MediaReturned =>
        Bind(DocumentedFilename(argNode.attrs.id[1], argContext), LAMBDA filename :
            returned.r =
                << (IF Get(argNode.attrs.alt, <<>>) # <<>> /\ argNode.attrs.alt[1] # filename
                    THEN <<".">> \o argNode.attrs.alt[1] \o <<"\n">> ELSE <<>>)
                   \o <<"i", "m", "a", "g", "e", ":", ":">> \o filename \o <<"[", "]", "\n">> >>)


\* --- the extension handlers, with a sibling after the extension ---------------
BlockExtensionKeys ==
    { <<"t", "o", "c">>, <<"j", "i", "r", "a", "-", "j", "q", "l", "-", "s", "n", "a", "p", "s", "h", "o", "t">>, <<"a", "p", "p", "r", "o", "v", "e", "r", "s", "-", "m", "a", "c", "r", "o">>, <<"d", "o", "c", "u", "m", "e", "n", "t", "-", "c", "o", "n", "t", "r", "o", "l", "-", "t", "a", "b", "l", "e", "-", "m", "a", "c", "r", "o">> }

InlineExtensionKeys == { <<"a", "n", "c", "h", "o", "r">>, <<"m", "e", "t", "a", "d", "a", "t", "a", "-", "m", "a", "c", "r", "o">> }

\* The decoded macro parameter string of a snapshot: missing, not valid JSON,
\* or one level.
Snapshots ==
    { None,
      Some([parses |-> FALSE, levels |-> <<>>]),
      Some([parses |-> TRUE,
            levels |-> << [jql |-> <<"q">>, title |-> <<>>,
                           fieldsPosition |-> << [available |-> TRUE, id |-> Some(<<"k", "e", "y">>)] >>] >>]) }

\* attrs of an extension: parameters absent, not a mapping (or holding a
\* macroParams that is not one), or a mapping with the values the handlers read.
ExtensionAttrs(key) ==
    { [NoAttrs EXCEPT !.extensionKey = Some(key), !.parameters = p] : p \in {"absent", "malformed"} }
    \cup { [NoAttrs EXCEPT !.extensionKey = Some(key), !.parameters = "mapping",
                           !.snapshot = s, !.dataValue = v, !.anchorId = a] :
              s \in Snapshots, v \in {None, Some(<<"W", "o", "r", "k", "f", "l", "o", "w", " ", "S", "t", "a", "t", "u", "s">>)},
              a \in {None, Some(<<"s", "1">>)} }

Extensions ==
    { [EmptyNode EXCEPT !.type = "extension", !.attrs = at] :
          at \in UNION {ExtensionAttrs(k) : k \in BlockExtensionKeys} }
    \cup { [EmptyNode EXCEPT !.type = "inlineExtension", !.attrs = at] :
          at \in UNION {ExtensionAttrs(k) : k \in InlineExtensionKeys} }

\* The paragraph that follows the extension.
Sibling == Para(<<Plain(<<"t">>)>>)

ExtInit ==
    /\ pc = "ext"
    /\ \E e \in Extensions : argNode = Node("doc", <<e, Sibling>>)
    /\ \/ argContext = ConvertContext /\ argHeap = <<>>
       \/ argContext = SiteContext /\ argHeap = SiteHeap
    /\ returned = <<>>
    /\ IdIdle
    /\ ScriptIdle
    /\ ClampIdle
    /\ RenderIdle

\* process_node(argNode, argContext): the extension, then its sibling
CallProcessNodeOnExtension ==
    /\ pc = "ext"
    /\ returned' = [fn |-> "process_node", r |-> ProcessNode(argNode, argContext, argHeap, <<>>)]
    /\ pc' = "done"
    /\ UNCHANGED <<argNode, argContext, argHeap>>
    /\ UNCHANGED <<idVars, clampVars, renderVars, scriptVars>>

ExtNext == CallProcessNodeOnExtension

SpecExt == ExtInit /\ [][ExtNext]_vars

ExtReturned == pc = "done" /\ returned.fn = "process_node" /\ argNode.type = "doc"

\* The extraction of the parameters of this extension fails: they are not a
\* mapping where the handler reads values from them, the macro parameter
\* string is not JSON, or a workflow macro has none.
ExtractionFails(e) ==
    Bind(e.attrs.extensionKey[1], LAMBDA key :
        /\ key # <<"t", "o", "c">>
        /\ \/ e.attrs.parameters = "malformed" /\ key # <<"d", "o", "c", "u", "m", "e", "n", "t", "-", "c", "o", "n", "t", "r", "o", "l", "-", "t", "a", "b", "l", "e", "-", "m", "a", "c", "r", "o">>
           \/ key = <<"j", "i", "r", "a", "-", "j", "q", "l", "-", "s", "n", "a", "p", "s", "h", "o", "t">> /\ e.attrs.parameters = "mapping"
                 /\ Has(e.attrs.snapshot) /\ ~e.attrs.snapshot[1].parses
           \/ key \in {<<"a", "p", "p", "r", "o", "v", "e", "r", "s", "-", "m", "a", "c", "r", "o">>, <<"d", "o", "c", "u", "m", "e", "n", "t", "-", "c", "o", "n", "t", "r", "o", "l", "-", "t", "a", "b", "l", "e", "-", "m", "a", "c", "r", "o">>}
                 /\ e.attrs.parameters = "absent")

\* One line that begins with "//", line ends around it aside.
IsCommentLine(s) ==
    Bind(Strip(s, {"\n"}), LAMBDA line :
        StartsWith(line, <<"/", "/">>) /\ ~Contains(line, <<"\n">>))

\* C24: rendering an extension of a recognized key and the paragraph after
\* it never raises; the paragraph is rendered last, and when the extraction
\* of the parameters fails the extension renders as one comment line.
C24_ExtensionNeverRaises ==
    ExtReturned =>
        /\ ~returned.r.err
        /\ returned.r.out # <<>>
        /\ returned.r.out[Len(returned.r.out)] = <<"t", "\n">>
        /\ ExtractionFails(argNode.content[1]) =>
              /\ Len(returned.r.out) = 2
              /\ IsCommentLine(returned.r.out[1])


\* --- process_inline_card_node on one card -------------------------------------
WikiUrl == <<"h", "t", "t", "p", "s", ":", "/", "/", "x", ".", "a", "t", "l", "a", "s", "s", "i", "a", "n", ".", "n", "e", "t", "/", "w", "i", "k", "i", "/", "p", "a", "g", "e", "s", "/", "1">>
BrowseUrl == <<"h", "t", "t", "p", "s", ":", "/", "/", "x", ".", "a", "t", "l", "a", "s", "s", "i", "a", "n", ".", "n", "e", "t", "/", "b", "r", "o", "w", "s", "e", "/", "A", "B", "-", "1">>

\* attrs.url: absent, empty, of the wiki form, of the browse form, of both
\* forms, of neither.
CardUrls ==
    { None, Some(<<>>), Some(WikiUrl), Some(BrowseUrl),
      Some(WikiUrl \o <<"?", "u", "=", "a", "t", "l", "a", "s", "s", "i", "a", "n", ".", "n", "e", "t", "/", "b", "r", "o", "w", "s", "e">>), Some(<<"h", "t", "t", "p", "s", ":", "/", "/", "e", ".", "c", "o", "m", "/", "p">>) }

\* context["confluence_client"]: None, or a client by what its two methods
\* answer: None, an empty title, a title.
CardClients ==
    {None} \cup
    { Some([page_title |-> p, ticket_title |-> j]) :
          p \in {None, Some(<<>>), Some(<<"P", "a", "g", "e">>)}, j \in {None, Some(<<"I", "s", "s", "u", "e">>)} }

\* adf_resources.py 740-750: the calls process_inline_card_node makes on the
\* client, each with the answer it gets.
InlineCardCalls(node, ctx) ==
    Bind(Get(node.attrs.url, <<>>), LAMBDA url :
        IF url = <<>> \/ ~Has(ctx.confluence_client) THEN <<>>
        ELSE IF Contains(url, <<"a", "t", "l", "a", "s", "s", "i", "a", "n", ".", "n", "e", "t", "/", "w", "i", "k", "i">>)
        THEN << [method |-> "get_confluence_page_title",
                 answer |-> ctx.confluence_client[1].page_title] >>
        ELSE IF Contains(url, <<"a", "t", "l", "a", "s", "s", "i", "a", "n", ".", "n", "e", "t", "/", "b", "r", "o", "w", "s", "e">>)
        THEN << [method |-> "get_jira_ticket_title",
                 answer |-> ctx.confluence_client[1].ticket_title] >>
        ELSE <<>>)

CardInit ==
    /\ pc = "card"
    /\ \E u \in CardUrls : argNode = [Node("inlineCard", <<>>) EXCEPT !.attrs.url = u]
    /\ \E c \in CardClients, x \in {ConvertContext, CellContext(ConvertContext)} :
            argContext = [x EXCEPT !.confluence_client = c]
    /\ argHeap = <<>>
    /\ returned = <<>>
    /\ IdIdle
    /\ ScriptIdle
    /\ ClampIdle
    /\ RenderIdle

\* process_inline_card_node(argNode, argContext); calls is a ghost.
CallProcessInlineCardNode ==
    /\ pc = "card"
    /\ returned' = [fn |-> "process_inline_card_node",
                    r |-> ProcessInlineCardNode(argNode, argContext),
                    calls |-> InlineCardCalls(argNode, argContext)]
    /\ pc' = "done"
    /\ UNCHANGED <<argNode, argContext, argHeap>>
    /\ UNCHANGED <<idVars, clampVars, renderVars, scriptVars>>

CardNext == CallProcessInlineCardNode

SpecCard == CardInit /\ [][CardNext]_vars

CardReturned == pc = "done" /\ returned.fn = "process_inline_card_node"

\* The title the client answered to the calls made, <<>> when it answered
\* none or was not asked.
AnsweredTitle(cs) == IF cs = <<>> THEN <<>> ELSE Get(cs[1].answer, <<>>)

\* C25: a card without url renders nothing; any other card renders as
\* link:url[title] when the client answered a title and as link:url[url] when
\* there is no client or no title; the client is asked at most once, and only
\* for a url of the wiki or browse form.
C25_CardDegradesToUrl ==
    CardReturned =>
        Bind(Get(argNode.attrs.url, <<>>), LAMBDA url :
            /\ Len(returned.calls) <= 1
            /\ returned.calls # <<>> =>
                  \/ Contains(url, <<"a", "t", "l", "a", "s", "s", "i", "a", "n", ".", "n", "e", "t", "/", "w", "i", "k", "i">>)
                  \/ Contains(url, <<"a", "t", "l", "a", "s", "s", "i", "a", "n", ".", "n", "e", "t", "/", "b", "r", "o", "w", "s", "e">>)
            /\ returned.r =
                  IF url = <<>> THEN <<>>
                  ELSE IF AnsweredTitle(returned.calls) # <<>>
                  THEN << <<"l", "i", "n", "k", ":">> \o url \o <<"[">> \o AnsweredTitle(returned.calls) \o <<"]">> >>
                  ELSE << <<"l", "i", "n", "k", ":">> \o url \o <<"[">> \o url \o <<"]">> >>)

\* A card of the wiki form was rendered with the title the client answered.
C25_Witness ==
    /\ CardReturned
    /\ argNode.attrs.url = Some(WikiUrl)
    /\ Len(returned.calls) = 1
    /\ returned.r = << <<"l", "i", "n", "k", ":">> \o WikiUrl \o <<"[", "P", "a", "g", "e", "]">> >>


(***************************************************************************)
(* PART E.  The helper scripts around the renderer: upload_to_confluence,  *)
(* ConfluenceClient, ConfluenceDownloader and asciidoc_resources.  A call  *)
(* on a collaborator is a step whose outcome is chosen among the outcomes  *)
(* its code can have; the calls made are kept, in order, in calls.         *)
(***************************************************************************)
Call(fn, args, res) == [fn |-> fn, args |-> args, result |-> res]

CallsOf(log, fn) == {i \in 1..Len(log) : log[i].fn = fn}

\* --- upload_to_confluence.main ------------------------------------------------
\* --page-id: not given, given empty, given.
PageIdOptions == {None, Some(""), Some("P0")}

\* The documents the ADF file may hold: {}, and doc nodes over media nodes
\* whose attrs carry collection, id, width and height.
AdfKinds ==
    { <<EmptyDict>>,
      << [type |-> "doc", hasAttrs |-> FALSE, collection |-> NoValue, id |-> NoValue],
         [type |-> "media", hasAttrs |-> TRUE, collection |-> "attachments", id |-> "a"],
         [type |-> "media", hasAttrs |-> TRUE, collection |-> "attachments", id |-> "b"] >>,
      << [type |-> "doc", hasAttrs |-> FALSE, collection |-> NoValue, id |-> NoValue],
         [type |-> "mediaSingle", hasAttrs |-> FALSE, collection |-> NoValue, id |-> NoValue],
         [type |-> "media", hasAttrs |-> TRUE, collection |-> "attachments", id |-> "b"] >> }

AdfDims ==
    { <<[width |-> Absent, height |-> Absent],
        [width |-> Num(MaxDim - 1), height |-> Num(2)],
        [width |-> Auto, height |-> Num(1)]>>,
      <<[width |-> Absent, height |-> Absent],
        [width |-> Absent, height |-> Absent],
        [width |-> Num(2), height |-> Num(MaxDim)]>> }

\* json.load(f): a tree of fresh dicts; the attrs dict at address i also holds
\* the width and height in dims[i].
AdfFiles ==
    { [nodes |-> MkNodes(Len(k), [i \in 2..Len(k) |-> IF i = 3 /\ k[2].type = "mediaSingle" THEN 2 ELSE 1], k),
       attrs |-> MkAttrs(Len(k), k),
       dims |-> [i \in 1..Len(k) |-> d[i]],
       root |-> 1] : k \in AdfKinds, d \in AdfDims }

\* The value of a document: what json.dump writes and the page receives.
RECURSIVE AdfValue(_, _, _, _)
AdfValue(ns, as, dims, r) ==
    [type |-> ns[r].type,
     hasAttrs |-> ns[r].attrs # 0,
     collection |-> IF ns[r].attrs # 0 THEN as[ns[r].attrs].collection ELSE NoValue,
     id |-> IF ns[r].attrs # 0 THEN as[ns[r].attrs].id ELSE NoValue,
     width |-> IF ns[r].attrs # 0 THEN dims[ns[r].attrs].width ELSE Absent,
     height |-> IF ns[r].attrs # 0 THEN dims[ns[r].attrs].height ELSE Absent,
     content |-> [i \in 1..Len(ns[r].content) |-> AdfValue(ns, as, dims, ns[r].content[i])]]

\* upload_to_confluence.py 65: update_adf_media_ids(adf_json, filename_to_fileid).
MainPatchedIds(file, m) ==
    Bind(UpdateAdfMediaIds(file.nodes, file.attrs, file.root, m), LAMBDA u :
        AdfValue(u.nodes, u.attrs, file.dims, u.ret))

\* Mutant of MainWantsDimensions: the dimensions are never updated.
MainNeverWantsDimensions(mw) == FALSE

\* upload_to_confluence.py 67: `if max_image_width:`, false for None and for 0.
MainWantsDimensions(mw) == mw.present /\ mw.n # 0

\* upload_to_confluence.py 65-68.
MainPatchedAdf(file, m, mw) ==
    IF MainWantsDimensions(mw)
    THEN UpdateAdfImageDimensions(MainPatchedIds(file, m), mw)
    ELSE MainPatchedIds(file, m)

\* What extract_images_and_includes may leave in images.
ImageLists == {<<>>, <<"a">>, <<"a", "b">>}

\* What get_page_attachments may return: attachments with a title and
\* extensions.fileId.
AttachmentLists == {<<>>, <<[title |-> "a", fileId |-> "X"]>>}

\* upload_to_confluence.py 52-54.
CurrentFiles(atts) ==
    [t \in {atts[i].title : i \in 1..Len(atts)} |->
        atts[Min({i \in 1..Len(atts) : atts[i].title = t /\ \A j \in 1..Len(atts) : atts[j].title = t => j <= i})].fileId]

\* What upload_images_to_confluence may return for these images: a file id
\* for the images it kept or uploaded, none for those whose upload failed.
UploadResults(imgs) ==
    UNION {[K -> {"X", "Y"}] : K \in SUBSET {imgs[i] : i \in 1..Len(imgs)}}

MainInit ==
    /\ pc = "extract"
    /\ pageId \in PageIdOptions
    /\ max_image_width \in MaxWidths
    /\ adf_json \in AdfFiles
    /\ images = <<>>
    /\ current_files = <<>>
    /\ filename_to_fileid = <<>>
    /\ patched_adf = <<>>
    /\ calls = <<>>
    /\ IdIdle
    /\ ClampIdle
    /\ RenderIdle
    /\ CallIdle
    /\ UploadIdle
    /\ PaginateIdle
    /\ DownloadIdle
    /\ ExtractIdle

mainRest ==
    <<idVars, clampVars, renderVars, callVars, uploadVars, paginateVars, downloadVars,
      extractVars>>

\* upload_to_confluence.py 36-37: the images are collected, or a missing image
\* raises FileNotFoundError out of main.
MainExtractImages ==
    /\ pc = "extract"
    /\ \/ /\ images' \in ImageLists
          /\ pc' = "page"
       \/ /\ images' = images
          /\ pc' = "raised"
    /\ UNCHANGED <<pageId, max_image_width, current_files, filename_to_fileid,
                   adf_json, patched_adf, calls>>
    /\ UNCHANGED mainRest

\* upload_to_confluence.py 40-42 and 46-48: no page id, so a page is created;
\* main returns when that gave None.
MainCreateEmptyPage ==
    /\ pc = "page"
    /\ Get(pageId, "") = ""
    /\ \E created \in {None, Some("P1")} :
          /\ calls' = Append(calls, Call("create_empty_page", <<>>, created))
          /\ pageId' = created
          /\ pc' = IF created = None THEN "returned" ELSE "attachments"
    /\ UNCHANGED <<max_image_width, images, current_files, filename_to_fileid,
                   adf_json, patched_adf>>
    /\ UNCHANGED mainRest

\* upload_to_confluence.py 43-46: the page id given is used.
MainExistingPage ==
    /\ pc = "page"
    /\ Get(pageId, "") # ""
    /\ pc' = "attachments"
    /\ UNCHANGED <<pageId, max_image_width, images, current_files, filename_to_fileid,
                   adf_json, patched_adf, calls>>
    /\ UNCHANGED mainRest

\* upload_to_confluence.py 51-54: the attachments are listed; an error in the
\* listing goes out of main.
MainGetPageAttachments ==
    /\ pc = "attachments"
    /\ \/ \E atts \in AttachmentLists :
            /\ calls' = Append(calls, Call("get_page_attachments", <<pageId[1]>>, atts))
            /\ current_files' = CurrentFiles(atts)
            /\ pc' = "upload"
       \/ /\ calls' = Append(calls, Call("get_page_attachments", <<pageId[1]>>, "raised"))
          /\ current_files' = current_files
          /\ pc' = "raised"
    /\ UNCHANGED <<pageId, max_image_width, images, filename_to_fileid, adf_json,
                   patched_adf>>
    /\ UNCHANGED mainRest

\* upload_to_confluence.py 58-60: the images are uploaded; an error in the
\* upload goes out of main.
MainUploadImages ==
    /\ pc = "upload"
    /\ \/ \E m \in UploadResults(images) :
            /\ calls' = Append(calls,
                   Call("upload_images_to_confluence", <<images, pageId[1], current_files>>, m))
            /\ filename_to_fileid' = m
            /\ pc' = "patch"
       \/ /\ calls' = Append(calls,
                 Call("upload_images_to_confluence", <<images, pageId[1], current_files>>, "raised"))
          /\ filename_to_fileid' = filename_to_fileid
          /\ pc' = "raised"
    /\ UNCHANGED <<pageId, max_image_width, images, current_files, adf_json, patched_adf>>
    /\ UNCHANGED mainRest

\* upload_to_confluence.py 62-72: the ADF file is loaded, patched and written
\* next to it; a file that cannot be read raises out of main.
MainPatchAdf ==
    /\ pc = "patch"
    /\ \/ /\ patched_adf' = Some(MainPatchedAdf(adf_json, filename_to_fileid, max_image_width))
          /\ pc' = "update"
       \/ /\ patched_adf' = patched_adf
          /\ pc' = "raised"
    /\ UNCHANGED <<pageId, max_image_width, images, current_files, filename_to_fileid,
                   adf_json, calls>>
    /\ UNCHANGED mainRest

\* upload_to_confluence.py 75-77: the page content is updated; what the call
\* returns is not looked at.
MainUpdatePageContent ==
    /\ pc = "update"
    /\ \E ok \in BOOLEAN :
          calls' = Append(calls, Call("update_page_content", <<pageId[1], patched_adf[1]>>, ok))
    /\ pc' = "returned"
    /\ UNCHANGED <<pageId, max_image_width, images, current_files, filename_to_fileid,
                   adf_json, patched_adf>>
    /\ UNCHANGED mainRest

MainNext ==
    \/ MainExtractImages
    \/ MainCreateEmptyPage
    \/ MainExistingPage
    \/ MainGetPageAttachments
    \/ MainUploadImages
    \/ MainPatchAdf
    \/ MainUpdatePageContent

SpecMain == MainInit /\ [][MainNext]_vars

\* No page id was given and create_empty_page returned None.
MainCreateFailed ==
    \E i \in CallsOf(calls, "create_empty_page") : calls[i].result = None

\* The document the claim names: the file's document after update_adf_media_ids
\* with the mapping the upload returned, then after update_adf_image_dimensions
\* if max_image_width is set.
MainDocumentedAdf(m) ==
    IF max_image_width.present
    THEN UpdateAdfImageDimensions(MainPatchedIds(adf_json, m), max_image_width)
    ELSE MainPatchedIds(adf_json, m)

MaxImages == 2

\* d[k] = v on a dict.
DictSet(dict, k, v) == [x \in DOMAIN dict \cup {k} |-> IF x = k THEN v ELSE dict[x]]

\* Image paths, as <<directory, file name>>; os.path.basename is the file name.
ImagePaths == {<<"d", "a">>, <<"e", "a">>, <<"d", "b">>}

BaseName(path) == path[2]

RECURSIVE SeqsUpTo(_, _)
SeqsUpTo(S, n) ==
    IF n = 0 THEN {<<>>}
    ELSE SeqsUpTo(S, n - 1) \cup {Append(s, x) : s \in {t \in SeqsUpTo(S, n - 1) : Len(t) = n - 1}, x \in S}

\* The attachments of the page, as get_page_attachments lists them: none, or
\* one titled "a" with or without a download link.
PageAttachments ==
    { <<>>,
      <<[title |-> "a", fileId |-> "X", id |-> "att1", download |-> TRUE]>>,
      <<[title |-> "a", fileId |-> "X", id |-> "att1", download |-> FALSE]>> }

\* confluence_client.py 257: {att["title"]: att for att in attachments}.
ByTitle(atts) ==
    [t \in {atts[i].title : i \in 1..Len(atts)} |->
        atts[CHOOSE i \in 1..Len(atts) :
                atts[i].title = t /\ \A j \in 1..Len(atts) : atts[j].title = t => j <= i]]

\* The file id the site gives to the upload of the image at this index.
NewFileId(i) == IF i = 1 THEN "Y" ELSE "Z"

UploadInit ==
    /\ pc = "upload_start"
    /\ images \in SeqsUpTo(ImagePaths, MaxImages)
    /\ pageId = Some("P0")
    /\ current_files \in {<<>>, [t \in {"a"} |-> "X"]}
    /\ server \in {[attachments |-> a] : a \in PageAttachments}
    /\ filename_to_fileid = <<>>
    /\ calls = <<>>
    /\ image = 0
    /\ attachments_by_name = <<>>
    /\ old_attachment_id = None
    /\ max_image_width = <<>> /\ adf_json = <<>> /\ patched_adf = <<>>
    /\ nextStart = 0 /\ all_results = <<>> /\ limit = 0
    /\ DownloadIdle
    /\ ExtractIdle
    /\ IdIdle
    /\ ClampIdle
    /\ RenderIdle
    /\ CallIdle

uploadRest ==
    <<idVars, clampVars, renderVars, callVars, downloadVars, extractVars,
      pageId, max_image_width, images, current_files, adf_json, patched_adf,
      nextStart, all_results, limit, server>>

\* confluence_client.py 211-232: the result starts empty; the values of
\* current_files are file ids, not attachment objects, so attachments_by_name
\* starts empty; the page status is asked for.
UploadStart ==
    /\ pc = "upload_start"
    /\ \E status \in {None, Some("current"), Some("draft")} :
          calls' = Append(calls, Call("get_page_info", <<pageId[1]>>, status))
    /\ filename_to_fileid' = <<>>
    /\ attachments_by_name' = <<>>
    /\ image' = 1
    /\ old_attachment_id' = None
    /\ pc' = "upload_image"
    /\ UNCHANGED uploadRest

\* confluence_client.py 252-257: the attachment objects, fetched when none are
\* held yet.
FetchedAttachments ==
    IF DOMAIN attachments_by_name = {} THEN ByTitle(server.attachments)
    ELSE attachments_by_name

\* confluence_client.py 258-262: the attachment whose checksum is compared, or
\* None when there is none of that name or it has no download link.
ComparedAttachment(filename) ==
    IF filename \in DOMAIN current_files
       /\ filename \in DOMAIN FetchedAttachments
       /\ FetchedAttachments[filename].download
    THEN Some(FetchedAttachments[filename])
    ELSE None

\* confluence_client.py 234-262: one image up to the decision to upload it.
\* A file that is not there raises FileNotFoundError; equal checksums put the
\* existing file id in the result and go to the next image; otherwise the
\* image is to be uploaded, and the attachment compared is to be removed.
UploadCheckImage ==
    /\ pc = "upload_image"
    /\ image <= Len(images)
    /\ \/ /\ pc' = "raised"
          /\ UNCHANGED <<filename_to_fileid, calls, image, attachments_by_name,
                         old_attachment_id>>
       \/ /\ BaseName(images[image]) \notin DOMAIN current_files
          /\ old_attachment_id' = None
          /\ pc' = "upload_post"
          /\ UNCHANGED <<filename_to_fileid, calls, image, attachments_by_name>>
       \/ /\ BaseName(images[image]) \in DOMAIN current_files
          /\ attachments_by_name' = FetchedAttachments
          /\ IF ComparedAttachment(BaseName(images[image])) = None
             THEN /\ calls' =
                        IF DOMAIN attachments_by_name = {}
                        THEN Append(calls, Call("get_page_attachments", <<image>>, server.attachments))
                        ELSE calls
                  /\ old_attachment_id' = None
                  /\ pc' = "upload_post"
                  /\ UNCHANGED <<filename_to_fileid, image>>
             ELSE \E cmp \in {"equal", "differ", "unavailable"} :
                  /\ calls' =
                        (IF DOMAIN attachments_by_name = {}
                         THEN Append(calls, Call("get_page_attachments", <<image>>, server.attachments))
                         ELSE calls)
                        \o <<Call("compare_sha256", <<image, BaseName(images[image])>>, cmp)>>
                  /\ IF cmp = "equal"
                     THEN /\ filename_to_fileid' =
                                DictSet(filename_to_fileid, BaseName(images[image]),
                                        ComparedAttachment(BaseName(images[image]))[1].fileId)
                          /\ old_attachment_id' = None
                          /\ image' = image + 1
                          /\ pc' = "upload_image"
                     ELSE /\ old_attachment_id' =
                                Some(ComparedAttachment(BaseName(images[image]))[1].id)
                          /\ pc' = "upload_post"
                          /\ UNCHANGED <<filename_to_fileid, image>>
    /\ UNCHANGED uploadRest

\* confluence_client.py 264-291 but the removal: the upload request.  On 200 or
\* 201 the new file id goes into the result; another status is printed; an
\* error of the request goes out of the function.
UploadPost ==
    /\ pc = "upload_post"
    /\ \/ \E status \in {200, 201} :
            /\ calls' = Append(calls, Call("requests.post", <<image, BaseName(images[image])>>, status))
            /\ filename_to_fileid' =
                  DictSet(filename_to_fileid, BaseName(images[image]), NewFileId(image))
            /\ IF old_attachment_id # None
               THEN pc' = "upload_delete" /\ image' = image
               ELSE pc' = "upload_image" /\ image' = image + 1
       \/ \E status \in {400, 500} :
            /\ calls' = Append(calls, Call("requests.post", <<image, BaseName(images[image])>>, status))
            /\ filename_to_fileid' = filename_to_fileid
            /\ pc' = "upload_image"
            /\ image' = image + 1
       \/ /\ calls' = Append(calls, Call("requests.post", <<image, BaseName(images[image])>>, 0))
          /\ filename_to_fileid' = filename_to_fileid
          /\ pc' = "raised"
          /\ image' = image
    /\ UNCHANGED <<attachments_by_name, old_attachment_id>>
    /\ UNCHANGED uploadRest

\* confluence_client.py 287-289: the attachment that was replaced is removed.
UploadDelete ==
    /\ pc = "upload_delete"
    /\ \E ok \in BOOLEAN :
          calls' = Append(calls, Call("delete_attachment", <<image, old_attachment_id[1]>>, ok))
    /\ image' = image + 1
    /\ pc' = "upload_image"
    /\ UNCHANGED <<filename_to_fileid, attachments_by_name, old_attachment_id>>
    /\ UNCHANGED uploadRest

\* confluence_client.py 234 and 292: no image is left; the result is returned.
UploadReturn ==
    /\ pc = "upload_image"
    /\ image > Len(images)
    /\ pc' = "returned"
    /\ UNCHANGED <<filename_to_fileid, calls, image, attachments_by_name, old_attachment_id>>
    /\ UNCHANGED uploadRest

UploadNext ==
    \/ UploadStart
    \/ UploadCheckImage
    \/ UploadPost
    \/ UploadDelete
    \/ UploadReturn

SpecUpload == UploadInit /\ [][UploadNext]_vars

\* The calls of one kind made for the image at index i.
CallsFor(fn, i) == {c \in CallsOf(calls, fn) : calls[c].args[1] = i}

UploadSucceeded(c) == calls[c].result \in {200, 201}

\* The three cases of the claim for the image at index i.
UnchangedKept(i) ==
    (\E c \in CallsFor("compare_sha256", i) : calls[c].result = "equal") =>
        /\ CallsFor("requests.post", i) = {}
        /\ pc = "returned" =>
              /\ BaseName(images[i]) \in DOMAIN filename_to_fileid
              /\ filename_to_fileid[BaseName(images[i])] = "X"

ChangedReplaced(i) ==
    (\E c \in CallsFor("compare_sha256", i) : calls[c].result # "equal") =>
        /\ pc = "returned" => CallsFor("requests.post", i) # {}
        /\ \A del \in CallsFor("delete_attachment", i) :
              \E c \in CallsFor("requests.post", i) : c < del /\ UploadSucceeded(c)

FailedLeftOut(i) ==
    (\E c \in CallsFor("requests.post", i) : ~UploadSucceeded(c)) =>
        /\ CallsFor("delete_attachment", i) = {}
        /\ pc = "returned" => BaseName(images[i]) \notin DOMAIN filename_to_fileid

\* C27: for each image of upload_images_to_confluence: equal checksums mean no
\* upload request and the existing file id in the result; different checksums
\* mean an upload, and a removal of the old attachment only after a successful
\* upload; a failed upload means no removal and no entry for the file name in
\* the result.
C27_UploadSkipsReplacesOrLeavesOut ==
    \A i \in 1..Len(images) : UnchangedKept(i) /\ ChangedReplaced(i) /\ FailedLeftOut(i)

\* The same three cases for the images whose file name no other image of the
\* list has.
C27_HoldsForDistinctNames ==
    \A i \in 1..Len(images) :
        (\A j \in 1..Len(images) : BaseName(images[j]) = BaseName(images[i]) => j = i) =>
            UnchangedKept(i) /\ ChangedReplaced(i) /\ FailedLeftOut(i)


\* --- ConfluenceClient._paginate -------------------------------------------------
MaxRequests == 3

\* What _make_request returns for a GET (confluence_client.py 474-489): None for
\* a failed request, True for a 2xx answer without a body, the bytes of a 2xx
\* body that is no JSON, the decoded JSON object otherwise.  An object has a "results" key or not, and a "_links" key
\* with or without "next" or none; the object without keys is {}.
NoAnswer == [kind |-> "None", results |-> "absent", links |-> "absent"]
NoBody == [kind |-> "True", results |-> "absent", links |-> "absent"]
NoJson == [kind |-> "bytes", results |-> "absent", links |-> "absent"]

Answers ==
    {NoAnswer, NoBody, NoJson} \cup
    { [kind |-> "object", results |-> r, links |-> l] :
          r \in {"absent", "empty", "full"}, l \in {"absent", "none", "next"} }

\* The site answers the n-th request with the n-th answer of its script and
\* repeats the last one after that.
Sites == {s \in SeqsUpTo(Answers, MaxRequests) : s # <<>>}

AnswerTo(n) == IF n <= Len(server) THEN server[n] ELSE server[Len(server)]

\* `not response`: None and {}.
NotResponse(a) ==
    a.kind = "None" \/ (a.kind = "object" /\ a.results = "absent" /\ a.links = "absent")

\* response.get("results", []): the items from the offset on, at most lim.
ResultsOf(a, offset, lim) ==
    IF a.results = "full" THEN [i \in 1..lim |-> offset + i - 1] ELSE <<>>

\* confluence_client.py 602: "next" in response.get("_links", {}).
HasNext(a) == a.links = "next"

PaginateInit ==
    /\ pc = "paginate"
    /\ server \in Sites
    /\ limit \in {1, 2}
    /\ nextStart = 0
    /\ all_results = <<>>
    /\ calls = <<>>
    /\ pageId = <<>> /\ max_image_width = <<>> /\ images = <<>> /\ current_files = <<>>
    /\ filename_to_fileid = <<>> /\ adf_json = <<>> /\ patched_adf = <<>>
    /\ UploadIdle
    /\ DownloadIdle
    /\ ExtractIdle
    /\ IdIdle
    /\ ClampIdle
    /\ RenderIdle
    /\ CallIdle

paginateRest ==
    <<idVars, clampVars, renderVars, callVars, uploadVars, downloadVars, extractVars,
      pageId, max_image_width, images, current_files, filename_to_fileid, adf_json,
      patched_adf, limit, server>>

\* confluence_client.py 587-605: one turn of the loop.  The request carries
\* start and limit; no response leaves the loop; the results are appended; no
\* next link leaves the loop; otherwise start moves on by limit.  An answer
\* that is no object has no get and raises AttributeError.
PaginateRequest ==
    /\ pc = "paginate"
    /\ Len(calls) < MaxRequests + 1
    /\ calls' = Append(calls, Call("_make_request", <<nextStart, limit>>, AnswerTo(Len(calls) + 1)))
    /\ IF NotResponse(AnswerTo(Len(calls) + 1))
       THEN pc' = "return" /\ UNCHANGED <<nextStart, all_results>>
       ELSE IF AnswerTo(Len(calls) + 1).kind # "object"
       THEN pc' = "raised" /\ UNCHANGED <<nextStart, all_results>>
       ELSE /\ all_results' = all_results \o ResultsOf(AnswerTo(Len(calls) + 1), nextStart, limit)
            /\ IF HasNext(AnswerTo(Len(calls) + 1))
               THEN pc' = "paginate" /\ nextStart' = nextStart + limit
               ELSE pc' = "return" /\ nextStart' = nextStart
    /\ UNCHANGED paginateRest

\* confluence_client.py 607: return all_results.
PaginateReturn ==
    /\ pc = "return"
    /\ pc' = "returned"
    /\ UNCHANGED <<nextStart, all_results, calls>>
    /\ UNCHANGED paginateRest

PaginateNext == PaginateRequest \/ PaginateReturn

SpecPaginate == PaginateInit /\ [][PaginateNext]_vars

\* The loop is not kept from taking its next step.
SpecPaginateLive == SpecPaginate /\ WF_vars(PaginateNext)

\* The first answer of the site that fails or has no next link, 0 if none.
FirstStop ==
    IF \E n \in 1..Len(server) : server[n].kind # "object" \/ server[n].links # "next"
    THEN Min({n \in 1..Len(server) : server[n].kind # "object" \/ server[n].links # "next"})
    ELSE 0

RECURSIVE DocumentedResults(_)
DocumentedResults(n) ==
    IF n = 0 THEN <<>>
    ELSE DocumentedResults(n - 1) \o
         (IF AnswerTo(n).kind = "object" /\ AnswerTo(n).results = "full"
          THEN [i \in 1..limit |-> (n - 1) * limit + i - 1] ELSE <<>>)

PaginateAsDocumented ==
    /\ \A k \in 1..Len(calls) : calls[k].args = <<(k - 1) * limit, limit>>
    /\ pc # "raised"
    /\ FirstStop # 0 => Len(calls) <= FirstStop
    /\ pc = "returned" =>
          /\ Len(calls) = FirstStop
          /\ all_results = DocumentedResults(Len(calls))

\* C28: _paginate asks for start = 0, limit, 2*limit, ..., stops at the first
\* answer that fails or has no _links.next, and returns the results of the
\* answers it got, in order, those before a failing request included.
C28_PaginateStopsAndReturns == PaginateAsDocumented

\* The same on the sites all of whose answers are failures or JSON objects.
C28_HoldsForObjectAnswers ==
    (\A n \in 1..Len(server) : server[n].kind \in {"None", "object"}) => PaginateAsDocumented

\* On such a site that omits the next link at some answer _paginate returns.
C28_ReturnsWhenNextOmitted ==
    ((\A n \in 1..Len(server) : server[n].kind \in {"None", "object"}) /\ FirstStop # 0)
        ~> (pc = "returned")


\* --- ConfluenceDownloader.download_page_recursive -------------------------------
MaxChildren == 2
MaxDepth == 2

Pages == {"r", "a", "b"}

\* The site: the child pages get_child_pages lists for each page, and the one
\* page, if any, whose information or whose content cannot be fetched.
PageGraphs == [Pages -> SeqsUpTo(Pages, MaxChildren)]

Failures ==
    {[page |-> "", what |-> "none"]} \cup
    {[page |-> p, what |-> w] : p \in Pages, w \in {"info", "content"}}

Frame(page, depth) ==
    [page_id |-> page, current_depth |-> depth, phase |-> "enter",
     child_pages |-> <<>>, next |-> 1]

DownloadInit ==
    /\ pc = "download"
    /\ server \in {[children |-> g, failure |-> f] : g \in PageGraphs, f \in Failures}
    /\ config \in {[max_depth |-> m] : m \in 1..MaxDepth}
    /\ visited_pages = {}
    /\ page_mapping = <<>>
    /\ stack = <<Frame("r", 0)>>
    /\ disk = <<>>
    /\ calls = <<>>
    /\ pageId = <<>> /\ max_image_width = <<>> /\ images = <<>> /\ current_files = <<>>
    /\ filename_to_fileid = <<>> /\ adf_json = <<>> /\ patched_adf = <<>>
    /\ nextStart = 0 /\ all_results = <<>> /\ limit = 0
    /\ UploadIdle
    /\ ExtractIdle
    /\ IdIdle
    /\ ClampIdle
    /\ RenderIdle
    /\ CallIdle

downloadRest ==
    <<idVars, clampVars, renderVars, callVars, uploadVars, extractVars,
      pageId, max_image_width, images, current_files, filename_to_fileid, adf_json,
      patched_adf, nextStart, all_results, limit, server, config>>

Fails(page, what) == server.failure = [page |-> page, what |-> what]

\* The innermost call and the calls around it.
Top == stack[1]
Callers == SubSeq(stack, 2, Len(stack))

\* confluence_to_asciidoc.py 243-258: a page already visited, or deeper than
\* max_depth, is left at once.
DownloadSkip ==
    /\ pc = "download"
    /\ stack # <<>>
    /\ Top.phase = "enter"
    /\ Top.page_id \in visited_pages \/ Top.current_depth > config.max_depth
    /\ stack' = Callers
    /\ UNCHANGED <<visited_pages, page_mapping, disk, calls>>
    /\ pc' = "download"
    /\ UNCHANGED downloadRest

\* confluence_to_asciidoc.py 260-264: the page is marked visited; without its
\* information the call returns.
DownloadNoInfo ==
    /\ pc = "download"
    /\ stack # <<>>
    /\ Top.phase = "enter"
    /\ Top.page_id \notin visited_pages /\ Top.current_depth <= config.max_depth
    /\ Fails(Top.page_id, "info")
    /\ visited_pages' = visited_pages \cup {Top.page_id}
    /\ calls' = Append(calls, Call("get_page_info", <<Top.page_id>>, None))
    /\ stack' = Callers
    /\ UNCHANGED <<page_mapping, disk>>
    /\ pc' = "download"
    /\ UNCHANGED downloadRest

\* confluence_to_asciidoc.py 260-290: the information is there, the content is
\* not; the call returns.
DownloadNoContent ==
    /\ pc = "download"
    /\ stack # <<>>
    /\ Top.phase = "enter"
    /\ Top.page_id \notin visited_pages /\ Top.current_depth <= config.max_depth
    /\ Fails(Top.page_id, "content")
    /\ visited_pages' = visited_pages \cup {Top.page_id}
    /\ calls' = calls \o << Call("get_page_info", <<Top.page_id>>, Some(Top.page_id)),
                            Call("get_page_content", <<Top.page_id>>, None) >>
    /\ stack' = Callers
    /\ UNCHANGED <<page_mapping, disk>>
    /\ pc' = "download"
    /\ UNCHANGED downloadRest

\* confluence_to_asciidoc.py 260-327 and 356: the page is fetched, converted
\* and saved, entered in page_mapping with its path, and its child pages are
\* listed.
DownloadConvert ==
    /\ pc = "download"
    /\ stack # <<>>
    /\ Top.phase = "enter"
    /\ Top.page_id \notin visited_pages /\ Top.current_depth <= config.max_depth
    /\ ~Fails(Top.page_id, "info") /\ ~Fails(Top.page_id, "content")
    /\ visited_pages' = visited_pages \cup {Top.page_id}
    /\ calls' = calls \o << Call("get_page_info", <<Top.page_id>>, Some(Top.page_id)),
                            Call("get_page_content", <<Top.page_id>>, Some(Top.page_id)),
                            Call("convert", <<Top.page_id, Top.current_depth>>, Top.page_id) >>
    /\ disk' = DictSet(disk, Top.page_id, <<>>)
    /\ page_mapping' = DictSet(page_mapping, Top.page_id,
                               [path |-> Some(Top.page_id),
                                parent_id |-> None])
    /\ stack' = <<[Top EXCEPT !.phase = "children",
                              !.child_pages = server.children[Top.page_id]]>> \o Callers
    /\ pc' = "download"
    /\ UNCHANGED downloadRest

\* confluence_to_asciidoc.py 359-376: the next child gets its parent in
\* page_mapping, in a new entry without a path if it has none, and is
\* downloaded one level deeper.
DownloadChild ==
    /\ pc = "download"
    /\ stack # <<>>
    /\ Top.phase = "children"
    /\ Top.next <= Len(Top.child_pages)
    /\ page_mapping' =
          DictSet(page_mapping, Top.child_pages[Top.next],
                  IF Top.child_pages[Top.next] \in DOMAIN page_mapping
                  THEN [page_mapping[Top.child_pages[Top.next]] EXCEPT !.parent_id = Some(Top.page_id)]
                  ELSE [path |-> None, parent_id |-> Some(Top.page_id)])
    /\ stack' = <<Frame(Top.child_pages[Top.next], Top.current_depth + 1),
                  [Top EXCEPT !.next = Top.next + 1]>> \o Callers
    /\ UNCHANGED <<visited_pages, disk, calls>>
    /\ pc' = "download"
    /\ UNCHANGED downloadRest

\* confluence_to_asciidoc.py 391-393: the children named in page_mapping.
ReferencedChildren(children) == SelectSeq(children, LAMBDA c : c \in DOMAIN page_mapping)

\* confluence_to_asciidoc.py 394: page_mapping[child_id]["path"] raises KeyError
\* for an entry that has no path.
ReferencesRaise(children) ==
    \E i \in 1..Len(children) :
        children[i] \in DOMAIN page_mapping /\ page_mapping[children[i]].path = None

\* confluence_to_asciidoc.py 378-405: after the last child the references to
\* the children are appended to the page's file, and the call returns.
DownloadAddReferences ==
    /\ pc = "download"
    /\ stack # <<>>
    /\ Top.phase = "children"
    /\ Top.next > Len(Top.child_pages)
    /\ IF ReferencesRaise(Top.child_pages)
       THEN pc' = "raised" /\ UNCHANGED <<stack, disk>>
       ELSE /\ disk' = [disk EXCEPT ![Top.page_id] = @ \o ReferencedChildren(Top.child_pages)]
            /\ stack' = Callers
            /\ pc' = "download"
    /\ UNCHANGED <<visited_pages, page_mapping, calls>>
    /\ UNCHANGED downloadRest

\* The outermost call has returned.
DownloadReturn ==
    /\ pc = "download"
    /\ stack = <<>>
    /\ pc' = "returned"
    /\ UNCHANGED <<visited_pages, page_mapping, stack, disk, calls>>
    /\ UNCHANGED downloadRest

DownloadNext ==
    \/ DownloadSkip
    \/ DownloadNoInfo
    \/ DownloadNoContent
    \/ DownloadConvert
    \/ DownloadChild
    \/ DownloadAddReferences
    \/ DownloadReturn

SpecDownload == DownloadInit /\ [][DownloadNext]_vars

\* The calls are not kept from taking their next step.
SpecDownloadLive == SpecDownload /\ WF_vars(DownloadNext)

Converted(p) == \E c \in CallsOf(calls, "convert") : calls[c].args[1] = p

\* Each page is fetched and converted at most once, and none deeper than
\* max_depth is converted.
FetchedOnceWithinDepth ==
    /\ \A p \in Pages :
          /\ Cardinality({c \in CallsOf(calls, "get_page_info") : calls[c].args[1] = p}) <= 1
          /\ Cardinality({c \in CallsOf(calls, "get_page_content") : calls[c].args[1] = p}) <= 1
          /\ Cardinality({c \in CallsOf(calls, "convert") : calls[c].args[1] = p}) <= 1
    /\ \A c \in CallsOf(calls, "convert") : calls[c].args[2] <= config.max_depth

\* C29: download_page_recursive does not raise on any page graph (shared
\* children, cycles and trees deeper than max_depth included), fetches and
\* converts each page at most once and none deeper than max_depth, and a page
\* that has returned references only children that were converted.
C29_DownloadTerminatesWithoutRaising ==
    /\ pc # "raised"
    /\ FetchedOnceWithinDepth
    /\ \A p \in DOMAIN disk : \A i \in 1..Len(disk[p]) : Converted(disk[p][i])

\* What holds of every run, a raising one included.
C29_FetchedOnceWithinDepth == FetchedOnceWithinDepth

\* Every run ends: it returns or it raises.
C29_Ends == <>(pc \in {"returned", "raised"})


\* --- asciidoc_resources.extract_images_and_includes -----------------------------
MaxLines == 2

SourceFiles == {"main", "a", "b"}

\* The lines that matter: an image of the name "i", an include of a source
\* file, an :imagesdir: directive naming the directory "img".
SourceLines ==
    {[directive |-> "image", target |-> "i"], [directive |-> "imagesdir", target |-> "img"]}
    \cup {[directive |-> "include", target |-> f] : f \in SourceFiles}

\* The directories that hold the image: the base directory "." and "img", or
\* the base directory only.
ImageDirectories == {{".", "img"}, {"."}}

\* A path string, and the tuple `return images, imagesdir` builds.
PathString(dir) == <<"str", dir>>
ImagesAndDir(imgs, dir) == <<"tuple", imgs, dir>>

IsPathString(v) == v[1] = "str"

\* The state of reading one file: the images directory in effect, the images
\* and includes found, and the exception raised, if any.
Reading(dir, imgs, incs, err) ==
    [imagesdir |-> dir, images |-> imgs, includes |-> incs, raised |-> err]

\* asciidoc_resources.py 58-89: :imagesdir: sets the directory; an image is
\* joined to the directory in effect (os.path.join raises TypeError when that is
\* no string), must be a file, and is appended; an include is appended.
ExtractPathsFromLine(line, rd, existing) ==
    IF rd.raised # "" THEN rd
    ELSE IF line.directive = "imagesdir"
    THEN [rd EXCEPT !.imagesdir = PathString(line.target)]
    ELSE IF line.directive = "image"
    THEN IF ~IsPathString(rd.imagesdir) THEN [rd EXCEPT !.raised = "TypeError"]
         ELSE IF rd.imagesdir[2] \notin existing
         THEN [rd EXCEPT !.raised = "FileNotFoundError"]
         ELSE [rd EXCEPT !.images = Append(@, <<rd.imagesdir[2], line.target>>)]
    ELSE [rd EXCEPT !.includes = Append(@, line.target)]

\* asciidoc_resources.py 35-55: the lines of the file in order.
RECURSIVE ExtractFromFile(_, _, _, _)
ExtractFromFile(lines, i, rd, existing) ==
    IF i > Len(lines) THEN rd
    ELSE ExtractFromFile(lines, i + 1, ExtractPathsFromLine(lines[i], rd, existing), existing)

ExtractFrame(file) == [path |-> file, phase |-> "enter", includes |-> <<>>, next |-> 1]

ExtractInit ==
    /\ pc = "extract"
    /\ disk \in {[sources |-> s, imagedirs |-> e] :
                    s \in [SourceFiles -> SeqsUpTo(SourceLines, MaxLines)],
                    e \in ImageDirectories}
    /\ images = <<>>
    /\ processed_files = {}
    /\ imagesdir = PathString(".")
    /\ stack = <<ExtractFrame("main")>>
    /\ calls = <<>>
    /\ pageId = <<>> /\ max_image_width = <<>> /\ current_files = <<>>
    /\ filename_to_fileid = <<>> /\ adf_json = <<>> /\ patched_adf = <<>>
    /\ config = <<>> /\ visited_pages = {} /\ page_mapping = <<>>
    /\ UploadIdle
    /\ PaginateIdle
    /\ IdIdle
    /\ ClampIdle
    /\ RenderIdle
    /\ CallIdle

extractRest ==
    <<idVars, clampVars, renderVars, callVars, uploadVars, paginateVars,
      pageId, max_image_width, current_files, filename_to_fileid, adf_json,
      patched_adf, config, visited_pages, page_mapping, disk>>

\* asciidoc_resources.py 18-19: a file already processed is not read again;
\* the call returns the pair (images, imagesdir).
ExtractSkip ==
    /\ pc = "extract"
    /\ stack # <<>>
    /\ Top.phase = "enter"
    /\ Top.path \in processed_files
    /\ imagesdir' = ImagesAndDir(images, imagesdir)
    /\ stack' = Callers
    /\ pc' = "extract"
    /\ UNCHANGED <<images, processed_files, calls>>
    /\ UNCHANGED extractRest

\* asciidoc_resources.py 21-25: the file is marked processed and read.
ExtractRead ==
    /\ pc = "extract"
    /\ stack # <<>>
    /\ Top.phase = "enter"
    /\ Top.path \notin processed_files
    /\ processed_files' = processed_files \cup {Top.path}
    /\ calls' = Append(calls, Call("open", <<Top.path>>, "r"))
    /\ Bind(ExtractFromFile(disk.sources[Top.path], 1,
                            Reading(imagesdir, images, <<>>, ""), disk.imagedirs),
            LAMBDA rd :
                /\ images' = rd.images
                /\ imagesdir' = rd.imagesdir
                /\ IF rd.raised # ""
                   THEN pc' = "raised " \o rd.raised /\ stack' = stack
                   ELSE /\ pc' = "extract"
                        /\ stack' = <<[Top EXCEPT !.phase = "includes",
                                                  !.includes = rd.includes]>> \o Callers)
    /\ UNCHANGED extractRest

\* asciidoc_resources.py 27-30: the next include is processed with the images
\* directory in effect, and what the call returns becomes that directory.
ExtractInclude ==
    /\ pc = "extract"
    /\ stack # <<>>
    /\ Top.phase = "includes"
    /\ Top.next <= Len(Top.includes)
    /\ stack' = <<ExtractFrame(Top.includes[Top.next]), [Top EXCEPT !.next = Top.next + 1]>>
                \o Callers
    /\ pc' = "extract"
    /\ UNCHANGED <<images, processed_files, imagesdir, calls>>
    /\ UNCHANGED extractRest

\* asciidoc_resources.py 32: return imagesdir.
ExtractReturn ==
    /\ pc = "extract"
    /\ stack # <<>>
    /\ Top.phase = "includes"
    /\ Top.next > Len(Top.includes)
    /\ stack' = Callers
    /\ pc' = IF Callers = <<>> THEN "returned" ELSE "extract"
    /\ UNCHANGED <<images, processed_files, imagesdir, calls>>
    /\ UNCHANGED extractRest

ExtractNext == ExtractSkip \/ ExtractRead \/ ExtractInclude \/ ExtractReturn

SpecExtract == ExtractInit /\ [][ExtractNext]_vars

\* The calls are not kept from taking their next step.
SpecExtractLive == SpecExtract /\ WF_vars(ExtractNext)

ReadAtMostOnce ==
    \A f \in SourceFiles :
        Cardinality({c \in CallsOf(calls, "open") : calls[c].args[1] = f}) <= 1

\* C30: extract_images_and_includes reads each file at most once; an include
\* of a file already processed leaves the images directory in effect a path
\* string, so that no image of a file included after it fails to be joined to
\* it.
C30_RepeatedIncludeKeepsImagesDir ==
    /\ ReadAtMostOnce
    /\ IsPathString(imagesdir)
    /\ pc # "raised TypeError"

\* What holds of every run: no file is read twice.
C30_ReadAtMostOnce == ReadAtMostOnce

\* Every run ends: the outermost call returns (it does so at once when main
\* is empty of includes) or an exception leaves it.
C30_Ends == <>(pc \in {"returned", "raised TypeError", "raised FileNotFoundError"})

====
